---- MODULE Spec2Model ----
(***************************************************************************)
(* Verification model of folio212.                                         *)
(*                                                                         *)
(*   Part I    internal/infrastructure/secrets/secrets.go                  *)
(*             Get / Set / Delete over environment, OS keyring (raced      *)
(*             against a 3-second timer) and the secrets file.             *)
(*   Part II   internal/infrastructure/trading212/client.go                *)
(*             Client.doJSON and its 429 retry policy.                     *)
(*   Part III  trading212.NewClient and the requests built with it.        *)
(*   Part IV   internal/domain/portfolio: GetPortfolio and its metrics.    *)
(*   Part V    init: the validation fetch followed by secrets.Set.         *)
(*   Part VI   a caller that stores a secret and reads it back.            *)
(*   Part VII  internal/infrastructure/config: Load and Save.              *)
(*   Part VIII cmd: the portfolio command, parsePeriod and                 *)
(*             presentation.HumanizeAccountError.                          *)
(***************************************************************************)
EXTENDS Integers, Sequences, FiniteSets, Bags, TLC

VARIABLES
    \* ---- Part I: secrets ----
    env,        \* process environment: variable name -> value ("" = unset/empty)
    keyring,    \* OS keyring of service "folio212": key -> stored value or Absent
    file,       \* ~/.folio212/secrets.yml: [exists, secrets: key -> value or Absent]
    pc,         \* position of the caller: "idle" | "select" | "done"
    call,       \* the secret operation in progress
    waited,     \* seconds elapsed since the caller entered its select
    worker,     \* the goroutine of the keyring wrapper the caller is waiting for
    orphans,    \* bag of the goroutines left behind by wrappers that timed out
    ret         \* outcome of the last completed operation

secretVars == <<env, keyring, file, pc, call, waited, worker, orphans, ret>>

VARIABLES
    \* ---- Part II: Client.doJSON ----
    hpc,        \* position in doJSON: "idle" | "inflight" | "backoff" | "done"
    attempt,    \* the loop variable
    hnow,       \* wall clock, unix seconds
    ctxDone,    \* the caller's context is cancelled or past its deadline
    sentAt,     \* clock at each HTTP request put on the wire
    resps,      \* the responses received, each with the clock at its arrival
    backoff,    \* the 429 wait: [d, elapsed, sel]
    hret        \* what doJSON returned

httpVars == <<hpc, attempt, hnow, ctxDone, sentAt, resps, backoff, hret>>

\* trading212.NewClient and the requests built with its client
VARIABLES
    cpc,        \* "new" before NewClient is called, "ready" with a client, "failed"
    newArgs,    \* the arguments of NewClient
    client,     \* the *Client returned, NoClient for nil
    clientErr,  \* the error returned
    requests    \* requests built by doJSON with this client, in order

clientVars == <<cpc, newArgs, client, clientErr, requests>>

\* portfolio.Service.GetPortfolio and the text rendering of its output
VARIABLES
    gpc,          \* "idle", "summary" (fetch in flight), "positions", "done", "rendered"
    period,       \* the PeriodRange argument
    includeRaw,   \* the includeRaw argument
    fetches,      \* the API fetches issued, in order
    summaryRes,   \* what GetAccountSummary returned
    positionsRes, \* what GetPositions returned
    gret,         \* what GetPortfolio returned
    labels        \* the FX pair label of each holding in the rendered text

portVars == <<gpc, period, includeRaw, fetches, summaryRes, positionsRes, gret, labels>>

\* a caller that stores a secret with Set and reads it back with Get
VARIABLES
    lastSet       \* the caller's source, insecure, err of its Set, and the value set

tripVars == <<lastSet>>

\* package config
VARIABLES
    cfg,          \* the package variable cfg, NilConfig for nil
    cfgFile,      \* ~/.folio212/config.yaml: [state, fields]
    configRet,    \* what the last call of Load or Save returned
    configCalls,  \* the calls of Load and Save made so far
    parsedOnce,   \* some Load has read and unmarshalled the file
    savedOnce     \* some Save has returned nil

configVars == <<cfg, cfgFile, configRet, configCalls, parsedOnce, savedOnce>>

\* the portfolio command (package cmd)
VARIABLES
    xpc,          \* the step the command is at: "prerun", "run", "secret",
                  \* "summary", "positions", "done"
    flags,        \* the --from and --to flags
    cmdCfg,       \* package cmd's cfg, what GetConfig returns
    secretRes,    \* what secrets.Get returned to the command
    periodRes,    \* what parsePeriod returned
    steps,        \* the checks and calls the command has executed, in order
    fetchRes,     \* what each API fetch returned to GetPortfolio, in order
    portfolioErr, \* the error GetPortfolio returned
    cmdRet        \* what the command returned

cmdVars == <<xpc, flags, cmdCfg, secretRes, periodRes, steps, fetchRes, portfolioErr, cmdRet>>

otherVars == <<tripVars, configVars, cmdVars>>

restVars == <<clientVars, portVars, otherVars>>

vars == <<secretVars, httpVars, restVars>>

----------------------------------------------------------------------------
(* Bounds of the model *)

\* goroutines of the keyring wrappers alive at once: the one of the call in
\* progress plus those left behind by calls that timed out
MaxWorkers == 2

----------------------------------------------------------------------------
(* Strings as sequences of characters, so that toEnvVar is computed. *)

AppName == <<"f","o","l","i","o","2","1","2">>

KeyAPIToken == <<"a","p","i","-","t","o","k","e","n">>

KeyTrading212APISecret == <<"t","2","1","2","-","a","p","i","-","s","e","c","r","e","t">>

Keys == {KeyAPIToken, KeyTrading212APISecret}

\* strings.ToUpper on one character (letters used by the keys; others unchanged)
UpperTable ==
    [c \in {"a","c","e","f","i","k","l","n","o","p","r","s","t"} |->
        CASE c = "a" -> "A" [] c = "c" -> "C" [] c = "e" -> "E" [] c = "f" -> "F"
          [] c = "i" -> "I" [] c = "k" -> "K" [] c = "l" -> "L" [] c = "n" -> "N"
          [] c = "o" -> "O" [] c = "p" -> "P" [] c = "r" -> "R" [] c = "s" -> "S"
          [] c = "t" -> "T"]

ToUpperChar(c) == IF c \in DOMAIN UpperTable THEN UpperTable[c] ELSE c

ToUpper(s) == [i \in 1..Len(s) |-> ToUpperChar(s[i])]

\* strings.ReplaceAll(s, old, new) for single-character old and new
ReplaceAll(s, old, new) == [i \in 1..Len(s) |-> IF s[i] = old THEN new ELSE s[i]]

\* toEnvVar that upper-cases the key but keeps its hyphens
toEnvVar_keepHyphens(key) ==
    ToUpper(AppName) \o <<"_">> \o ToUpper(key)

\* toEnvVar: "api-token" -> "FOLIO212_API_TOKEN"
toEnvVar(key) ==
    ToUpper(AppName) \o <<"_">> \o ToUpper(ReplaceAll(key, "-", "_"))

----------------------------------------------------------------------------
(* Values *)

Absent == "<absent>"

\* values the stores may hold before the process starts
OldVals == {"s1"}

\* values passed to Set
NewVals == {"", "s2"}

\* values an environment variable may hold ("" = unset or empty)
EnvVals == {"", "e1"}

SourceEnv == "environment"
SourceKeyring == "keyring"
SourceFile == "config_file"
SourceNone == "none"

\* Errors are chains, innermost last; the nil error is the empty chain.
Nil == <<>>
ErrNotFound == <<"keyring.ErrNotFound">>
ErrKeyringBackend == <<"keyring backend error">>
ErrFileLoad == <<"secrets file load error">>
ErrFileSave == <<"secrets file save error">>
TimeoutErrorGet == <<"TimeoutError: get">>
TimeoutErrorSet == <<"TimeoutError: set">>
TimeoutErrorDelete == <<"TimeoutError: delete">>

\* errors.Is(err, target) for a one-element target
ErrorsIs(err, target) == \E i \in 1..Len(err) : err[i] = target[1]

\* os.Getenv
Getenv(name) == IF name \in DOMAIN env THEN env[name] ELSE ""

\* seconds of time.After in the three keyring wrappers
KeyringTimeoutSeconds == 3

----------------------------------------------------------------------------
(* Names of the environment variables the documentation tells the user to set *)

EnvAPIToken == <<"F","O","L","I","O","2","1","2","_","A","P","I","_","T","O","K","E","N">>

EnvTrading212APISecret ==
    <<"F","O","L","I","O","2","1","2","_","T","2","1","2","_","A","P","I","_","S","E","C","R","E","T">>

EnvNameOf(key) == IF key = KeyAPIToken THEN EnvAPIToken ELSE EnvTrading212APISecret

----------------------------------------------------------------------------
(* The secrets file.  readOk / writeOk are the outcome of the file system   *)
(* calls of one operation (home directory, ReadFile, yaml, MkdirAll,        *)
(* WriteFile); a failed save leaves the file as it was.                     *)

\* The stores are projected on the one key a process works on
\* (t212-api-secret in init and portfolio, api-token in the template's init).
EmptySecrets(key) == [k \in {key} |-> Absent]

loadSecretsFile(f, readOk) ==
    IF ~readOk THEN [err |-> ErrFileLoad, secrets |-> f.secrets]
    ELSE IF ~f.exists THEN [err |-> Nil, secrets |-> [k \in DOMAIN f.secrets |-> Absent]]
    ELSE [err |-> Nil, secrets |-> f.secrets]

saveSecretsFile(f, secrets, writeOk) ==
    IF ~writeOk THEN [err |-> ErrFileSave, file |-> f]
    ELSE [err |-> Nil, file |-> [exists |-> TRUE, secrets |-> secrets]]

\* sf.Secrets[key]: a missing map entry reads as ""
getFromFile(f, key, readOk) ==
    LET sf == loadSecretsFile(f, readOk) IN
    IF sf.err # Nil THEN [val |-> "", err |-> sf.err]
    ELSE [val |-> IF sf.secrets[key] = Absent THEN "" ELSE sf.secrets[key], err |-> Nil]

setInFile(f, key, value, readOk, writeOk) ==
    LET sf == loadSecretsFile(f, readOk) IN
    IF sf.err # Nil THEN [err |-> sf.err, file |-> f]
    ELSE saveSecretsFile(f, [sf.secrets EXCEPT ![key] = value], writeOk)

deleteFromFile(f, key, readOk, writeOk) ==
    LET sf == loadSecretsFile(f, readOk) IN
    IF sf.err # Nil THEN [err |-> sf.err, file |-> f]
    ELSE saveSecretsFile(f, [sf.secrets EXCEPT ![key] = Absent], writeOk)

----------------------------------------------------------------------------
(* Get, Set and Delete after the keyring wrapper has returned kr = [val, err] *)

\* Get that reports no error whatever the keyring failure was
Get_afterKeyring_swallow(key, kr, f, readOk) ==
    IF kr.err = Nil /\ kr.val # ""
    THEN [value |-> kr.val, source |-> SourceKeyring, err |-> Nil,
          fileGets |-> 0, fileVal |-> "", fileErr |-> Nil]
    ELSE LET fr == getFromFile(f, key, readOk)
             out == [value |-> "", source |-> SourceNone, err |-> Nil,
                     fileGets |-> 1, fileVal |-> fr.val, fileErr |-> fr.err]
         IN  IF fr.err = Nil /\ fr.val # ""
             THEN [out EXCEPT !.value = fr.val, !.source = SourceFile]
             ELSE out

\* Get that returns a keyring failure other than not-found at once, without
\* trying the file
Get_afterKeyring_noFallback(key, kr, f, readOk) ==
    IF kr.err = Nil /\ kr.val # ""
    THEN [value |-> kr.val, source |-> SourceKeyring, err |-> Nil,
          fileGets |-> 0, fileVal |-> "", fileErr |-> Nil]
    ELSE IF kr.err # Nil /\ ~ErrorsIs(kr.err, ErrNotFound)
    THEN [value |-> "", source |-> SourceNone,
          err |-> <<"failed to get secret (keyring error)">> \o kr.err,
          fileGets |-> 0, fileVal |-> "", fileErr |-> Nil]
    ELSE LET fr == getFromFile(f, key, readOk)
             out == [value |-> "", source |-> SourceNone, err |-> Nil,
                     fileGets |-> 1, fileVal |-> fr.val, fileErr |-> fr.err]
         IN  IF fr.err = Nil /\ fr.val # ""
             THEN [out EXCEPT !.value = fr.val, !.source = SourceFile]
             ELSE out

\* Get that takes any successful keyring read as found, an empty value included
Get_afterKeyring_acceptEmpty(key, kr, f, readOk) ==
    IF kr.err = Nil
    THEN [value |-> kr.val, source |-> SourceKeyring, err |-> Nil,
          fileGets |-> 0, fileVal |-> "", fileErr |-> Nil]
    ELSE LET keyringErr == kr.err
             fr == getFromFile(f, key, readOk)
             out == [value |-> "", source |-> SourceNone, err |-> Nil,
                     fileGets |-> 1, fileVal |-> fr.val, fileErr |-> fr.err]
         IN  IF fr.err = Nil /\ fr.val # ""
             THEN [out EXCEPT !.value = fr.val, !.source = SourceFile]
             ELSE IF keyringErr # Nil /\ ~ErrorsIs(keyringErr, ErrNotFound)
             THEN [out EXCEPT !.err = <<"failed to get secret (keyring error)">>
                                         \o keyringErr]
             ELSE out

\* Get, from the keyring result on (fileVal, fileErr: what getFromFile returned)
Get_afterKeyring(key, kr, f, readOk) ==
    IF kr.err = Nil /\ kr.val # ""
    THEN [value |-> kr.val, source |-> SourceKeyring, err |-> Nil,
          fileGets |-> 0, fileVal |-> "", fileErr |-> Nil]
    ELSE LET keyringErr == kr.err
             fr == getFromFile(f, key, readOk)
             out == [value |-> "", source |-> SourceNone, err |-> Nil,
                     fileGets |-> 1, fileVal |-> fr.val, fileErr |-> fr.err]
         IN  IF fr.err = Nil /\ fr.val # ""
             THEN [out EXCEPT !.value = fr.val, !.source = SourceFile]
             ELSE IF keyringErr # Nil /\ ~ErrorsIs(keyringErr, ErrNotFound)
             THEN [out EXCEPT !.err = <<"failed to get secret (keyring error)">>
                                         \o keyringErr]
             ELSE out

\* Set that leaves the file alone after a successful keyring write
Set_afterKeyring_noCleanup(key, value, krErr, f, readOk, writeOk) ==
    IF krErr = Nil
    THEN [source |-> SourceKeyring, insecure |-> FALSE, err |-> Nil, file |-> f,
          fileSets |-> 0, fileDeletes |-> 0, fileErr |-> Nil]
    ELSE LET s == setInFile(f, key, value, readOk, writeOk) IN
         IF s.err # Nil
         THEN [source |-> SourceNone, insecure |-> TRUE,
               err |-> <<"failed to store secret in keyring">> \o krErr
                          \o <<"and file">> \o s.err,
               file |-> s.file, fileSets |-> 1, fileDeletes |-> 0, fileErr |-> s.err]
         ELSE [source |-> SourceFile, insecure |-> TRUE, err |-> Nil, file |-> s.file,
               fileSets |-> 1, fileDeletes |-> 0, fileErr |-> Nil]

\* Set that reports only the file's failure when both backends fail
Set_afterKeyring_fileErrOnly(key, value, krErr, f, readOk, writeOk) ==
    IF krErr = Nil
    THEN LET d == deleteFromFile(f, key, readOk, writeOk) IN
         [source |-> SourceKeyring, insecure |-> FALSE, err |-> Nil, file |-> d.file,
          fileSets |-> 0, fileDeletes |-> 1, fileErr |-> d.err]
    ELSE LET s == setInFile(f, key, value, readOk, writeOk) IN
         IF s.err # Nil
         THEN [source |-> SourceNone, insecure |-> TRUE,
               err |-> <<"failed to store secret in file">> \o s.err,
               file |-> s.file, fileSets |-> 1, fileDeletes |-> 0, fileErr |-> s.err]
         ELSE [source |-> SourceFile, insecure |-> TRUE, err |-> Nil, file |-> s.file,
               fileSets |-> 1, fileDeletes |-> 0, fileErr |-> Nil]

\* Set, from the keyring result on
Set_afterKeyring(key, value, krErr, f, readOk, writeOk) ==
    IF krErr = Nil
    THEN LET d == deleteFromFile(f, key, readOk, writeOk) IN
         [source |-> SourceKeyring, insecure |-> FALSE, err |-> Nil, file |-> d.file,
          fileSets |-> 0, fileDeletes |-> 1, fileErr |-> d.err]
    ELSE LET s == setInFile(f, key, value, readOk, writeOk) IN
         IF s.err # Nil
         THEN [source |-> SourceNone, insecure |-> TRUE,
               err |-> <<"failed to store secret in keyring">> \o krErr
                          \o <<"and file">> \o s.err,
               file |-> s.file, fileSets |-> 1, fileDeletes |-> 0, fileErr |-> s.err]
         ELSE [source |-> SourceFile, insecure |-> TRUE, err |-> Nil, file |-> s.file,
               fileSets |-> 1, fileDeletes |-> 0, fileErr |-> Nil]

\* Delete that returns on a keyring failure without trying the file
Delete_afterKeyring_failFast(key, krErr, f, readOk, writeOk) ==
    IF krErr # Nil /\ ~ErrorsIs(krErr, ErrNotFound)
    THEN [err |-> <<"failed to delete secret">> \o <<"keyring">> \o krErr,
          errs |-> << <<"keyring">> \o krErr >>, file |-> f,
          fileDeletes |-> 0, fileErr |-> Nil]
    ELSE LET d == deleteFromFile(f, key, readOk, writeOk) IN
         [err |-> IF d.err # Nil
                  THEN <<"failed to delete secret">> \o <<"file">> \o d.err ELSE Nil,
          errs |-> IF d.err # Nil THEN << <<"file">> \o d.err >> ELSE <<>>,
          file |-> d.file, fileDeletes |-> 1, fileErr |-> d.err]

\* Delete, from the keyring result on; errs is the collected list
Delete_afterKeyring(key, krErr, f, readOk, writeOk) ==
    LET errs1 == IF krErr # Nil /\ ~ErrorsIs(krErr, ErrNotFound)
                 THEN << <<"keyring">> \o krErr >> ELSE <<>>
        d     == deleteFromFile(f, key, readOk, writeOk)
        errs  == IF d.err # Nil THEN Append(errs1, <<"file">> \o d.err) ELSE errs1
    IN  [err |-> IF Len(errs) > 0
                 THEN <<"failed to delete secret">> \o errs[1]
                          \o (IF Len(errs) > 1 THEN errs[2] ELSE <<>>)
                 ELSE Nil,
         errs |-> errs, file |-> d.file, fileDeletes |-> 1, fileErr |-> d.err]

----------------------------------------------------------------------------
(* State of the caller and of the keyring goroutines *)

NoCall == [op |-> "none", key |-> <<>>, value |-> ""]

NoRet ==
    [op |-> "none", key |-> <<>>, input |-> "", value |-> "", source |-> SourceNone,
     insecure |-> FALSE, err |-> Nil, errs |-> <<>>,
     krCalls |-> 0, krOutcome |-> "none", krVal |-> "", krErr |-> Nil,
     fileGets |-> 0, fileSets |-> 0, fileDeletes |-> 0, fileVal |-> "", fileErr |-> Nil,
     others |-> 0, keyringAt |-> Absent]

ZeroRes == [val |-> "", err |-> Nil]

\* no goroutine
NoWorker ==
    [op |-> "none", key |-> <<>>, value |-> "", state |-> "none",
     res |-> ZeroRes, ch |-> <<>>, closed |-> FALSE, others |-> 0]

\* a goroutine started by a keyring wrapper, with its channel of capacity 1
NewWorker(op, key, value) ==
    [op |-> op, key |-> key, value |-> value, state |-> "running",
     res |-> ZeroRes, ch |-> <<>>, closed |-> FALSE, others |-> 0]

\* A goroutine whose caller has timed out: nothing will ever read what it returns,
\* so only its position is kept once it has made its keyring call.
Unread(g) ==
    IF g.state = "running" THEN g
    ELSE [NoWorker EXCEPT !.state = g.state]

\* left-behind goroutines that have not yet made their keyring call
RunningOrphans ==
    LET R == {g \in BagToSet(orphans) : g.state = "running"} IN
    BagCardinality([g \in R |-> orphans[g]])

TimeoutErrorOf(op) ==
    CASE op = "get" -> TimeoutErrorGet
      [] op = "set" -> TimeoutErrorSet
      [] op = "delete" -> TimeoutErrorDelete

\* the key this process works on
TheKey == CHOOSE k \in Keys : k \in DOMAIN keyring

InitSecrets ==
    /\ \E k \in Keys :
         /\ env \in [{EnvNameOf(k)} -> EnvVals]
         /\ keyring \in [{k} -> OldVals \cup {Absent}]
         /\ \E ex \in BOOLEAN :
              \E m \in [{k} -> OldVals \cup {Absent}] :
                 /\ (~ex => m = EmptySecrets(k))
                 /\ file = [exists |-> ex, secrets |-> m]
    /\ pc = "idle"
    /\ call = NoCall
    /\ waited = 0
    /\ worker = NoWorker
    /\ orphans = EmptyBag
    /\ ret = NoRet

\* the go statement of a keyring wrapper, followed by its select
Spawn(op, key, value) ==
    /\ BagCardinality(orphans) + 1 <= MaxWorkers
    /\ worker' = NewWorker(op, key, value)
    /\ call' = [op |-> op, key |-> key, value |-> value]
    /\ waited' = 0
    /\ pc' = "select"
    /\ ret' = NoRet
    /\ UNCHANGED <<env, keyring, file, orphans, httpVars, restVars>>

\* Get(key) up to the select of getFromKeyringWithTimeout
GetStart(key) ==
    /\ pc \in {"idle", "done"}
    /\ LET envValue == Getenv(toEnvVar(key)) IN
       IF envValue # ""
       THEN /\ ret' = [NoRet EXCEPT !.op = "get", !.key = key, !.value = envValue,
                                    !.source = SourceEnv, !.keyringAt = keyring[key]]
            /\ pc' = "done"
            /\ UNCHANGED <<env, keyring, file, call, waited, worker, orphans, httpVars, restVars>>
       ELSE Spawn("get", key, "")

\* Set(key, value) up to the select of setInKeyringWithTimeout
SetStart(key, value) ==
    /\ pc \in {"idle", "done"}
    /\ Spawn("set", key, value)

\* Delete(key) up to the select of deleteFromKeyringWithTimeout
DeleteStart(key) ==
    /\ pc \in {"idle", "done"}
    /\ Spawn("delete", key, "")

\* keyring.Get / keyring.Set / keyring.Delete as goroutine g calls it on keyring kr;
\* ok: the backend works.  Yields what the call returns and the keyring after it.
KeyringOp(g, ok, kr) ==
    LET stored == kr[g.key] IN
    CASE ~ok -> [res |-> [val |-> "", err |-> ErrKeyringBackend], keyring |-> kr]
      [] ok /\ g.op = "get" ->
           [res |-> IF stored = Absent THEN [val |-> "", err |-> ErrNotFound]
                    ELSE [val |-> stored, err |-> Nil],
            keyring |-> kr]
      [] ok /\ g.op = "set" ->
           [res |-> [val |-> "", err |-> Nil],
            keyring |-> [kr EXCEPT ![g.key] = g.value]]
      [] ok /\ g.op = "delete" ->
           [res |-> IF stored = Absent THEN [val |-> "", err |-> ErrNotFound]
                    ELSE [val |-> "", err |-> Nil],
            keyring |-> [kr EXCEPT ![g.key] = Absent]]

\* the keyring call of the goroutine the caller is waiting for
KeyringCall(ok) ==
    /\ worker.state = "running"
    /\ LET r == KeyringOp(worker, ok, keyring) IN
       /\ keyring' = r.keyring
       /\ worker' = [worker EXCEPT !.state = "returned", !.res = r.res,
                                   !.others = RunningOrphans]
    /\ UNCHANGED <<env, file, pc, call, waited, orphans, ret, httpVars, restVars>>

\* ch <- result, then the deferred close(ch); the channel has capacity 1.
\* The caller parked in select on this channel is thereby committed to the receive.
ChanSend ==
    /\ worker.state = "returned"
    /\ Len(worker.ch) < 1
    /\ worker' = [worker EXCEPT !.state = "exited", !.ch = Append(@, worker.res),
                                !.res = ZeroRes, !.closed = TRUE]
    /\ UNCHANGED <<env, keyring, file, pc, call, waited, orphans, ret, httpVars, restVars>>

\* the keyring call of a goroutine whose caller has timed out
OrphanKeyringCall(g, ok) ==
    /\ BagIn(g, orphans)
    /\ g.state = "running"
    /\ LET r == KeyringOp(g, ok, keyring) IN
       /\ keyring' = r.keyring
       /\ orphans' = (orphans (-) SetToBag({g}))
                        (+) SetToBag({Unread([g EXCEPT !.state = "returned"])})
    /\ UNCHANGED <<env, file, pc, call, waited, worker, ret, httpVars, restVars>>

\* the send of a left-behind goroutine on a channel made without a buffer: it
\* waits for a receiver, and the caller has left its select
OrphanChanSend_unbuffered(g) ==
    /\ BagIn(g, orphans)
    /\ g.state = "returned"
    /\ Len(g.ch) < 0
    /\ orphans' = orphans (-) SetToBag({g})
    /\ UNCHANGED <<env, keyring, file, pc, call, waited, worker, ret, httpVars, restVars>>

\* ch <- result and close(ch) of a goroutine whose caller has timed out: the
\* buffered send goes through, the goroutine ends, nothing reads the channel
OrphanChanSend(g) ==
    /\ BagIn(g, orphans)
    /\ g.state = "returned"
    /\ Len(g.ch) < 1
    /\ orphans' = orphans (-) SetToBag({g})
    /\ UNCHANGED <<env, keyring, file, pc, call, waited, worker, ret, httpVars, restVars>>

\* one second passes while the caller is parked in select with nothing to receive;
\* reaching KeyringTimeoutSeconds delivers on the channel of time.After
Tick ==
    /\ pc = "select"
    /\ worker.ch = <<>>
    /\ waited < KeyringTimeoutSeconds
    /\ waited' = waited + 1
    /\ UNCHANGED <<env, keyring, file, pc, call, worker, orphans, ret, httpVars, restVars>>

\* the rest of Get / Set / Delete once the wrapper returned kr by way of `how`;
\* ret records what was returned, what the wrapper and the file calls yielded,
\* how many were made, and what the keyring held for the key at the return
Complete(kr, how, readOk, writeOk) ==
    LET base == [NoRet EXCEPT !.op = call.op, !.key = call.key, !.input = call.value,
                              !.krCalls = 1, !.krOutcome = how,
                              !.krVal = kr.val, !.krErr = kr.err,
                              !.others = worker.others,
                              !.keyringAt = keyring[call.key]]
    IN
    /\ pc' = "done"
    /\ call' = NoCall
    /\ waited' = 0
    /\ worker' = NoWorker
    /\ CASE call.op = "get" ->
              LET r == Get_afterKeyring(call.key, kr, file, readOk) IN
              /\ ret' = [base EXCEPT !.value = r.value, !.source = r.source,
                                     !.err = r.err, !.fileGets = r.fileGets,
                                     !.fileVal = r.fileVal, !.fileErr = r.fileErr]
              /\ file' = file
         [] call.op = "set" ->
              LET r == Set_afterKeyring(call.key, call.value, kr.err, file, readOk, writeOk) IN
              /\ ret' = [base EXCEPT !.source = r.source, !.insecure = r.insecure,
                                     !.err = r.err, !.fileSets = r.fileSets,
                                     !.fileDeletes = r.fileDeletes, !.fileErr = r.fileErr]
              /\ file' = r.file
         [] call.op = "delete" ->
              LET r == Delete_afterKeyring(call.key, kr.err, file, readOk, writeOk) IN
              /\ ret' = [base EXCEPT !.err = r.err, !.errs = r.errs,
                                     !.fileDeletes = r.fileDeletes, !.fileErr = r.fileErr]
              /\ file' = r.file
    /\ UNCHANGED <<env, keyring, httpVars, restVars>>

\* select: case res := <-ch
SelectRecv(readOk, writeOk) ==
    /\ pc = "select"
    /\ waited < KeyringTimeoutSeconds
    /\ worker.ch # <<>>
    /\ orphans' = orphans
    /\ Complete(Head(worker.ch), "recv", readOk, writeOk)

\* a wrapper without the timer case: it returns only what the goroutine sends
SelectTimeout_blocking(readOk, writeOk) ==
    /\ pc = "select"
    /\ waited >= KeyringTimeoutSeconds
    /\ worker.ch # <<>>
    /\ orphans' = orphans
    /\ Complete(Head(worker.ch), "recv", readOk, writeOk)

\* select: case <-time.After(3 * time.Second); the goroutine is left behind
SelectTimeout(readOk, writeOk) ==
    /\ pc = "select"
    /\ waited >= KeyringTimeoutSeconds
    /\ orphans' = orphans (+) SetToBag({Unread(worker)})
    /\ Complete([val |-> "", err |-> TimeoutErrorOf(call.op)], "timeout", readOk, writeOk)

----------------------------------------------------------------------------
(* Secrets: next-state relation *)

NextSecrets ==
    \/ GetStart(TheKey)
    \/ \E v \in NewVals : SetStart(TheKey, v)
    \/ DeleteStart(TheKey)
    \/ \E ok \in BOOLEAN : KeyringCall(ok)
    \/ ChanSend
    \/ \E g \in BagToSet(orphans) : \E ok \in BOOLEAN : OrphanKeyringCall(g, ok)
    \/ \E g \in BagToSet(orphans) : OrphanChanSend(g)
    \/ Tick
    \/ \E readOk \in BOOLEAN : \E writeOk \in BOOLEAN : SelectRecv(readOk, writeOk)
    \/ \E readOk \in BOOLEAN : \E writeOk \in BOOLEAN : SelectTimeout(readOk, writeOk)


----------------------------------------------------------------------------
(* Part II: Client.doJSON *)

\* the clock when the call starts
StartUnix == 1000

Digit == [c \in {"0","1","2","3","4","5","6","7","8","9"} |->
            CASE c = "0" -> 0 [] c = "1" -> 1 [] c = "2" -> 2 [] c = "3" -> 3
              [] c = "4" -> 4 [] c = "5" -> 5 [] c = "6" -> 6 [] c = "7" -> 7
              [] c = "8" -> 8 [] c = "9" -> 9]

\* the white space strings.TrimSpace removes, among the characters used here
WhiteSpace == {" ", "\t", "\n", "\r"}

RECURSIVE TrimLeft(_)
TrimLeft(s) == IF s # <<>> /\ Head(s) \in WhiteSpace THEN TrimLeft(Tail(s)) ELSE s

RECURSIVE TrimRight(_)
TrimRight(s) ==
    IF s # <<>> /\ s[Len(s)] \in WhiteSpace
    THEN TrimRight(SubSeq(s, 1, Len(s) - 1)) ELSE s

\* strings.TrimSpace
TrimSpace(s) == TrimRight(TrimLeft(s))

RECURSIVE DigitsValue(_)
DigitsValue(s) ==
    IF s = <<>> THEN 0 ELSE 10 * DigitsValue(SubSeq(s, 1, Len(s) - 1)) + Digit[s[Len(s)]]

\* strconv.Atoi / strconv.ParseInt(v, 10, 64): optional sign, then decimal digits
Atoi(s) ==
    LET signed == s # <<>> /\ s[1] \in {"+", "-"}
        body   == IF signed THEN Tail(s) ELSE s
    IN  IF body = <<>> \/ \E i \in 1..Len(body) : body[i] \notin DOMAIN Digit
        THEN [ok |-> FALSE, n |-> 0]
        ELSE [ok |-> TRUE,
              n |-> IF signed /\ s[1] = "-" THEN 0 - DigitsValue(body)
                    ELSE DigitsValue(body)]

\* the rate-limit fields of the HTTPError built from a non-2xx response
RetryAfterSeconds(resp) ==
    LET v == TrimSpace(resp.retryAfter) IN
    IF v # <<>> /\ Atoi(v).ok /\ Atoi(v).n > 0 THEN Atoi(v).n ELSE 0

RateLimitResetUnix(resp) ==
    LET v == TrimSpace(resp.reset) IN
    IF v # <<>> /\ Atoi(v).ok /\ Atoi(v).n > 0 THEN Atoi(v).n ELSE 0

HTTPErrorOf(resp) ==
    [kind |-> "HTTPError", status |-> resp.status,
     retryAfterSeconds |-> RetryAfterSeconds(resp),
     rateLimitResetUnix |-> RateLimitResetUnix(resp)]

\* the delay with the reset timestamp preferred over Retry-After
SuggestedRetryDelay_resetFirst(e, now) ==
    IF e.rateLimitResetUnix > 0 THEN [d |-> e.rateLimitResetUnix - now, ok |-> TRUE]
    ELSE IF e.retryAfterSeconds > 0 THEN [d |-> e.retryAfterSeconds, ok |-> TRUE]
    ELSE [d |-> 0, ok |-> FALSE]

\* HTTPError.SuggestedRetryDelay, in seconds
SuggestedRetryDelay(e, now) ==
    IF e.retryAfterSeconds > 0 THEN [d |-> e.retryAfterSeconds, ok |-> TRUE]
    ELSE IF e.rateLimitResetUnix > 0 THEN [d |-> e.rateLimitResetUnix - now, ok |-> TRUE]
    ELSE [d |-> 0, ok |-> FALSE]

\* ceiling above which a hinted delay is not waited for, in seconds
MaxFriendlyDelay == 8

\* wait when the 429 carries no usable hint, in seconds
FallbackDelay == 5

StatusTooManyRequests == 429

Is2xx(status) == ~(status < 200 \/ status >= 300)

\* what the server may answer
Statuses == {199, 200, 299, 300, 403, 429}

RetryAfterHeaders == {<<>>, <<"2">>, <<" ","8"," ">>, <<"9">>, <<"0">>, <<"s">>}

ResetHeaders == {<<>>, <<"9","9","5">>, <<"1","0","0","3">>, <<"1","0","0","9">>}

\* bodyOk: the body is JSON that decodes into the caller's type
Responses ==
    [status : Statuses, retryAfter : RetryAfterHeaders, reset : ResetHeaders,
     bodyOk : BOOLEAN]

NoBackoff == [d |-> 0, elapsed |-> 0, sel |-> "none"]

NoHRet == [kind |-> "none", status |-> 0, retryAfterSeconds |-> 0, rateLimitResetUnix |-> 0]

HResult(kind) == [NoHRet EXCEPT !.kind = kind]

InitHTTP ==
    /\ hpc = "idle"
    /\ attempt = 0
    /\ hnow = StartUnix
    /\ ctxDone = FALSE
    /\ sentAt = <<>>
    /\ resps = <<>>
    /\ backoff = NoBackoff
    /\ hret = NoHRet

\* return from doJSON
HReturn(r) ==
    /\ hpc' = "done"
    /\ hret' = r
    /\ backoff' = NoBackoff

\* c.http.Do on a request built without the caller's context
HttpDo_ignoreCtx ==
    /\ hpc' = "inflight"
    /\ sentAt' = Append(sentAt, hnow)
    /\ backoff' = NoBackoff
    /\ UNCHANGED hret

\* c.http.Do(req): a context that is already done fails the call before anything
\* is written; otherwise the request goes out
HttpDo ==
    IF ctxDone
    THEN /\ HReturn(HResult("transport error"))
         /\ UNCHANGED sentAt
    ELSE /\ hpc' = "inflight"
         /\ sentAt' = Append(sentAt, hnow)
         /\ backoff' = NoBackoff
         /\ UNCHANGED hret

\* doJSON up to the first c.http.Do
DoStart ==
    /\ hpc = "idle"
    /\ attempt' = 0
    /\ HttpDo
    /\ UNCHANGED <<hnow, ctxDone, resps, secretVars, restVars>>

\* a cancellation the parked select does not observe
CtxCancel_unobserved ==
    /\ hpc \in {"inflight", "backoff"}
    /\ ~ctxDone
    /\ ctxDone' = TRUE
    /\ backoff' = backoff
    /\ UNCHANGED <<hpc, attempt, hnow, sentAt, resps, hret, secretVars, restVars>>

\* the caller cancels, or the deadline passes; a select parked on ctx.Done() and
\* the timer is thereby committed to ctx.Done()
CtxCancel ==
    /\ hpc \in {"inflight", "backoff"}
    /\ ~ctxDone
    /\ ctxDone' = TRUE
    /\ backoff' = IF hpc = "backoff" /\ backoff.sel = "none"
                  THEN [backoff EXCEPT !.sel = "ctx"] ELSE backoff
    /\ UNCHANGED <<hpc, attempt, hnow, sentAt, resps, hret, secretVars, restVars>>

\* c.http.Do returns an error: connection failure, the client's 15 s timeout,
\* or the context ending while the request is in flight
DoError ==
    /\ hpc = "inflight"
    /\ HReturn(HResult("transport error"))
    /\ UNCHANGED <<attempt, hnow, ctxDone, sentAt, resps, secretVars, restVars>>

\* entering select { case <-ctx.Done(): ... case <-timer.C: } with a timer of d
EnterBackoff(d) ==
    /\ hpc' = "backoff"
    /\ backoff' = [d |-> d, elapsed |-> 0,
                   sel |-> CASE ctxDone /\ d = 0 -> "either"
                             [] ctxDone /\ d > 0 -> "ctx"
                             [] ~ctxDone /\ d = 0 -> "timer"
                             [] OTHER -> "none"]
    /\ UNCHANGED hret

\* the loop body that waits and retries on every non-2xx status
HandleResponse_retryAnyError(resp) ==
    IF ~Is2xx(resp.status)
    THEN LET httpErr == HTTPErrorOf(resp) IN
         IF attempt = 0
         THEN LET s == SuggestedRetryDelay(httpErr, hnow) IN
              IF s.ok
              THEN LET d == IF s.d < 0 THEN 0 ELSE s.d IN
                   IF d > MaxFriendlyDelay THEN HReturn(httpErr) ELSE EnterBackoff(d)
              ELSE EnterBackoff(FallbackDelay)
         ELSE HReturn(httpErr)
    ELSE IF resp.bodyOk THEN HReturn(HResult("nil")) ELSE HReturn(HResult("decode error"))

\* the loop body without the ceiling on the hinted delay
HandleResponse_noCeiling(resp) ==
    IF ~Is2xx(resp.status)
    THEN LET httpErr == HTTPErrorOf(resp) IN
         IF resp.status = StatusTooManyRequests /\ attempt = 0
         THEN LET s == SuggestedRetryDelay(httpErr, hnow) IN
              IF s.ok
              THEN LET d == IF s.d < 0 THEN 0 ELSE s.d IN EnterBackoff(d)
              ELSE EnterBackoff(FallbackDelay)
         ELSE HReturn(httpErr)
    ELSE IF resp.bodyOk THEN HReturn(HResult("nil")) ELSE HReturn(HResult("decode error"))

\* the loop body that retries a 429 at once, without the wait
HandleResponse_noWait(resp) ==
    IF ~Is2xx(resp.status)
    THEN LET httpErr == HTTPErrorOf(resp) IN
         IF resp.status = StatusTooManyRequests /\ attempt = 0
         THEN LET s == SuggestedRetryDelay(httpErr, hnow) IN
              IF s.ok
              THEN LET d == IF s.d < 0 THEN 0 ELSE s.d IN
                   IF d > MaxFriendlyDelay THEN HReturn(httpErr) ELSE EnterBackoff(0)
              ELSE EnterBackoff(0)
         ELSE HReturn(httpErr)
    ELSE IF resp.bodyOk THEN HReturn(HResult("nil")) ELSE HReturn(HResult("decode error"))

\* the body of the loop from the arrival of resp (callers always pass out # nil)
HandleResponse(resp) ==
    IF ~Is2xx(resp.status)
    THEN LET httpErr == HTTPErrorOf(resp) IN
         IF resp.status = StatusTooManyRequests /\ attempt = 0
         THEN LET s == SuggestedRetryDelay(httpErr, hnow) IN
              IF s.ok
              THEN LET d == IF s.d < 0 THEN 0 ELSE s.d IN
                   IF d > MaxFriendlyDelay THEN HReturn(httpErr) ELSE EnterBackoff(d)
              ELSE EnterBackoff(FallbackDelay)
         ELSE HReturn(httpErr)
    ELSE IF resp.bodyOk THEN HReturn(HResult("nil")) ELSE HReturn(HResult("decode error"))

\* c.http.Do returns a response
DoRecv(resp) ==
    /\ hpc = "inflight"
    /\ resps' = Append(resps, [resp |-> resp, at |-> hnow])
    /\ HandleResponse(resp)
    /\ UNCHANGED <<attempt, hnow, ctxDone, sentAt, secretVars, restVars>>

\* one second passes while doJSON is parked in the select of the 429 wait
BackoffTick ==
    /\ hpc = "backoff"
    /\ backoff.sel = "none"
    /\ hnow' = hnow + 1
    /\ backoff' = [backoff EXCEPT !.elapsed = @ + 1,
                                  !.sel = IF backoff.elapsed + 1 >= backoff.d
                                          THEN "timer" ELSE "none"]
    /\ UNCHANGED <<hpc, attempt, ctxDone, sentAt, resps, hret, secretVars, restVars>>

\* case <-timer.C, then continue: the second iteration of the loop
BackoffElapsed ==
    /\ hpc = "backoff"
    /\ backoff.sel \in {"timer", "either"}
    /\ attempt' = attempt + 1
    /\ HttpDo
    /\ UNCHANGED <<hnow, ctxDone, resps, secretVars, restVars>>

\* case <-ctx.Done(): timer.Stop(); return ctx.Err()
BackoffCancelled ==
    /\ hpc = "backoff"
    /\ backoff.sel \in {"ctx", "either"}
    /\ HReturn(HResult("ctx.Err"))
    /\ UNCHANGED <<attempt, hnow, ctxDone, sentAt, resps, secretVars, restVars>>

NextHTTP ==
    \/ DoStart
    \/ CtxCancel
    \/ DoError
    \/ \E resp \in Responses : DoRecv(resp)
    \/ BackoffTick
    \/ BackoffElapsed
    \/ BackoffCancelled

----------------------------------------------------------------------------
(* Part III: trading212.NewClient *)

MaxRequests == 2

NoClient == [nil |-> TRUE]

ErrBaseURLRequired == <<"baseURL is required">>
ErrAPIKeyRequired == <<"apiKey is required">>
ErrAPISecretRequired == <<"apiSecret is required">>

DefaultUserAgent == <<"f","o","l","i","o","2","1","2">>

\* strings.TrimRight(s, "/")
RECURSIVE TrimRightSlash(_)
TrimRightSlash(s) ==
    IF s # <<>> /\ s[Len(s)] = "/" THEN TrimRightSlash(SubSeq(s, 1, Len(s) - 1)) ELSE s

\* the options callers may pass: nil, or WithUserAgent(ua)
NilOption == [kind |-> "nil", ua |-> <<>>]
WithUserAgent(ua) == [kind |-> "ua", ua |-> TrimSpace(ua)]

\* for _, opt := range opts { if opt != nil { opt(c) } }
RECURSIVE ApplyOptions(_, _)
ApplyOptions(c, opts) ==
    IF opts = <<>> THEN c
    ELSE ApplyOptions(IF Head(opts).kind = "ua"
                      THEN [c EXCEPT !.userAgent = Head(opts).ua] ELSE c,
                      Tail(opts))

\* NewClient without the check of apiSecret
NewClient_noSecretCheck(baseURL, apiKey, apiSecret, opts) ==
    IF TrimSpace(baseURL) = <<>> THEN [client |-> NoClient, err |-> ErrBaseURLRequired]
    ELSE IF TrimSpace(apiKey) = <<>> THEN [client |-> NoClient, err |-> ErrAPIKeyRequired]
    ELSE [client |-> ApplyOptions([nil |-> FALSE,
                                   baseURL |-> TrimRightSlash(TrimSpace(baseURL)),
                                   apiKey |-> apiKey,
                                   apiSecret |-> apiSecret,
                                   userAgent |-> DefaultUserAgent], opts),
          err |-> Nil]

NewClient(baseURL, apiKey, apiSecret, opts) ==
    IF TrimSpace(baseURL) = <<>> THEN [client |-> NoClient, err |-> ErrBaseURLRequired]
    ELSE IF TrimSpace(apiKey) = <<>> THEN [client |-> NoClient, err |-> ErrAPIKeyRequired]
    ELSE IF TrimSpace(apiSecret) = <<>>
         THEN [client |-> NoClient, err |-> ErrAPISecretRequired]
    ELSE [client |-> ApplyOptions([nil |-> FALSE,
                                   baseURL |-> TrimRightSlash(TrimSpace(baseURL)),
                                   apiKey |-> apiKey,
                                   apiSecret |-> apiSecret,
                                   userAgent |-> DefaultUserAgent], opts),
          err |-> Nil]

\* arguments a caller may pass
BaseURLs == {<<>>, <<" ">>, <<"h">>, <<" ","h","/","/"," ">>, <<"/">>}
APIKeys == {<<>>, <<" ">>, <<"\t","\n">>, <<"k">>, <<" ","k"," ">>}
APISecrets == {<<>>, <<"\r"," ">>, <<"s">>, <<"s","\n">>, <<" ","-"," ">>}
OptionLists == {<<>>, <<NilOption, WithUserAgent(<<" ","c"," ">>)>>}

\* the endpoints of GetAccountSummary, GetPositions and GetInstruments
Paths == {"/api/v0/equity/account/summary", "/api/v0/equity/positions",
          "/api/v0/equity/metadata/instruments"}

InitClient ==
    /\ cpc = "new"
    /\ newArgs \in [baseURL : BaseURLs, apiKey : APIKeys, apiSecret : APISecrets,
                    opts : OptionLists]
    /\ client = NoClient
    /\ clientErr = Nil
    /\ requests = <<>>

\* the state of the client part when it is not exercised
IdleClient ==
    /\ cpc = "new"
    /\ newArgs = [baseURL |-> <<>>, apiKey |-> <<>>, apiSecret |-> <<>>, opts |-> <<>>]
    /\ client = NoClient
    /\ clientErr = Nil
    /\ requests = <<>>

NewClientCall ==
    /\ cpc = "new"
    /\ LET r == NewClient(newArgs.baseURL, newArgs.apiKey, newArgs.apiSecret, newArgs.opts)
       IN  /\ client' = r.client
           /\ clientErr' = r.err
           /\ cpc' = IF r.err = Nil THEN "ready" ELSE "failed"
    /\ UNCHANGED <<newArgs, requests, secretVars, httpVars, portVars, otherVars>>

\* doJSON up to c.http.Do: the request is built from the client's fields
BuildRequest(path) ==
    /\ cpc = "ready"
    /\ Len(requests) < MaxRequests
    /\ requests' = Append(requests,
                          [url |-> client.baseURL \o <<path>>,
                           user |-> client.apiKey, pass |-> client.apiSecret,
                           userAgent |-> client.userAgent])
    /\ UNCHANGED <<cpc, newArgs, client, clientErr, secretVars, httpVars, portVars, otherVars>>

NextClient ==
    \/ NewClientCall
    \/ \E path \in Paths : BuildRequest(path)

----------------------------------------------------------------------------
(* Part IV: portfolio.Service.GetPortfolio.  Amounts are integers in units of
   1/UnitsPerCent of a cent; strings are sequences of characters. *)

MaxPositions == 3

UnitsPerCent == 2

\* the 0.01 of reconcile, in units
Tolerance == UnitsPerCent

EUR == <<"E","U","R">>
USD == <<"U","S","D">>
GBP == <<"G","B","P">>

\* *float64
NilPtr == [nil |-> TRUE, v |-> 0]
Ptr(v) == [nil |-> FALSE, v |-> v]

\* trading212.Position, the fields GetPortfolio reads
Pos(ticker, currency, currentValue, totalCost, pnl, fx) ==
    [ticker |-> ticker, currency |-> currency,
     walletImpact |-> [currentValue |-> currentValue, totalCost |-> totalCost,
                       unrealizedProfitLoss |-> pnl, fxImpact |-> fx]]

\* Position.CurrentValue, Position.Invested
CurrentValue(p) == p.walletImpact.currentValue
Invested(p) == p.walletImpact.totalCost

\* positions the API may report
PositionPool ==
    { Pos("AAA", USD, 4, 3, 1, Ptr(1)),
      Pos("BBB", EUR, 4, 5, 0 - 1, Ptr(0)),
      Pos("CCC", <<>>, 2, 2, 0, NilPtr),
      Pos("DDD", USD, 7, 0, 7, Ptr(0 - 2)),
      Pos("EEE", GBP, 0, 1, 0 - 1, NilPtr) }

\* lists of distinct positions, in the order fetched
PositionLists ==
    UNION { { q \in [1..n -> PositionPool] :
                \A i \in 1..n : \A j \in 1..n : i # j => q[i] # q[j] } :
            n \in 0..MaxPositions }

\* trading212.AccountSummary
Summaries ==
    [currency : {<<>>, EUR, USD},
     totalValue : {0, 9, 12},
     cash : [availableToTrade : {0, 3}, inPies : {0, 1}, reservedForOrders : {0, 1}],
     investments : [currentValue : {4, 9}]]

\* errors doJSON may hand to the two fetches
FetchErrors ==
    { HTTPErrorOf([status |-> st, retryAfter |-> ra, reset |-> <<>>, bodyOk |-> FALSE]) :
        st \in {403, 429, 300}, ra \in {<<>>, <<"9">>} }
    \cup {HResult("transport error"), HResult("ctx.Err"), HResult("decode error")}

NoError == HResult("nil")

\* *string
NilStr == [nil |-> TRUE, v |-> ""]

Periods == {[from |-> NilStr, to |-> NilStr],
            [from |-> Ptr("2024-01-01"), to |-> Ptr("2024-01-31")]}

\* the zero AccountSummary
ZeroSummary ==
    [currency |-> <<>>, totalValue |-> 0,
     cash |-> [availableToTrade |-> 0, inPies |-> 0, reservedForOrders |-> 0],
     investments |-> [currentValue |-> 0]]

ErrMissingAccountDataPermission == <<"missing account data permission">>
ErrMissingPortfolioPermission == <<"missing portfolio permission">>
ErrRateLimited == <<"rate limited">>

\* fmt.Errorf("%w: %v", sentinel, err): the sentinel is wrapped, err is printed
Wrap(sentinel, err) == [kind |-> "wrapped", unwrap |-> sentinel, text |-> <<sentinel, ": ", err>>]

\* err.(*trading212.HTTPError)
IsHTTPError(err) == err.kind = "HTTPError"

classifyAccountError(err) ==
    IF IsHTTPError(err) /\ err.status = 403 THEN Wrap(ErrMissingAccountDataPermission, err)
    ELSE IF IsHTTPError(err) /\ err.status = 429 THEN Wrap(ErrRateLimited, err)
    ELSE err

\* the positions classifier with the account classifier's kinds
classifyPortfolioError_asAccount(err) ==
    IF IsHTTPError(err) /\ err.status = 403 THEN Wrap(ErrMissingAccountDataPermission, err)
    ELSE IF IsHTTPError(err) /\ err.status = 429 THEN Wrap(ErrRateLimited, err)
    ELSE err

classifyPortfolioError(err) ==
    IF IsHTTPError(err) /\ err.status = 403 THEN Wrap(ErrMissingPortfolioPermission, err)
    ELSE IF IsHTTPError(err) /\ err.status = 429 THEN Wrap(ErrRateLimited, err)
    ELSE err

RECURSIVE SumPositionsValue(_)
SumPositionsValue(positions) ==
    IF positions = <<>> THEN 0
    ELSE SumPositionsValue(SubSeq(positions, 1, Len(positions) - 1))
         + CurrentValue(positions[Len(positions)])

RECURSIVE SumPositionsCost(_)
SumPositionsCost(positions) ==
    IF positions = <<>> THEN 0
    ELSE SumPositionsCost(SubSeq(positions, 1, Len(positions) - 1))
         + Invested(positions[Len(positions)])

RECURSIVE SumPositionsPnL(_)
SumPositionsPnL(positions) ==
    IF positions = <<>> THEN 0
    ELSE SumPositionsPnL(SubSeq(positions, 1, Len(positions) - 1))
         + positions[Len(positions)].walletImpact.unrealizedProfitLoss

\* the FX sum that skips null entries without recording that one was seen
RECURSIVE SumPositionsFXImpact_skipNull(_)
SumPositionsFXImpact_skipNull(positions) ==
    IF positions = <<>> THEN [sum |-> 0, ok |-> TRUE]
    ELSE LET rest == SumPositionsFXImpact_skipNull(SubSeq(positions, 1, Len(positions) - 1))
             fx   == positions[Len(positions)].walletImpact.fxImpact
         IN  IF fx.nil THEN [sum |-> rest.sum, ok |-> rest.ok]
             ELSE [sum |-> rest.sum + fx.v, ok |-> rest.ok]

RECURSIVE SumPositionsFXImpact(_)
SumPositionsFXImpact(positions) ==
    IF positions = <<>> THEN [sum |-> 0, ok |-> TRUE]
    ELSE LET rest == SumPositionsFXImpact(SubSeq(positions, 1, Len(positions) - 1))
             fx   == positions[Len(positions)].walletImpact.fxImpact
         IN  IF fx.nil THEN [sum |-> rest.sum, ok |-> FALSE]
             ELSE [sum |-> rest.sum + fx.v, ok |-> rest.ok]

Abs(x) == IF x < 0 THEN 0 - x ELSE x

\* math.Round(n / d) for d > 0: to the nearest integer, halves away from zero
RoundDiv(n, d) ==
    IF n >= 0 THEN (2 * n + d) \div (2 * d) ELSE 0 - ((2 * (0 - n) + d) \div (2 * d))

\* Round(x, 2) of an amount: in cents
RoundCents(x) == RoundDiv(x, UnitsPerCent)

\* CalculateAllocationPercentage followed by PctToBps; Round(pct, 2) is the same
\* number read in hundredths of a percent
AllocationBps(positionValue, totalHoldingsValue) ==
    IF totalHoldingsValue <= 0 THEN 0
    ELSE RoundDiv(positionValue * 10000, totalHoldingsValue)

\* the return in basis points without the zero for a cost basis of zero or less
HoldingsReturnBps_noZero(holdingsPnL, holdingsCost) ==
    IF holdingsCost <= 0 THEN holdingsPnL ELSE RoundDiv(holdingsPnL * 10000, holdingsCost)

\* CalculateHoldingsReturn followed by PctToBps
HoldingsReturnBps(holdingsPnL, holdingsCost) ==
    IF holdingsCost <= 0 THEN 0 ELSE RoundDiv(holdingsPnL * 10000, holdingsCost)

\* CalculateHoldingsReturn followed by Round(x, 4): in 1/10000 of a percent
HoldingsReturnPct(holdingsPnL, holdingsCost) ==
    IF holdingsCost <= 0 THEN 0 ELSE RoundDiv(holdingsPnL * 1000000, holdingsCost)

\* the label without the test for equal currencies
ChooseFXPair_noSameCheck(explicit, instrumentCurrency, accountCurrency) ==
    IF explicit # <<>> THEN explicit
    ELSE IF instrumentCurrency = <<>> \/ accountCurrency = <<>>
         THEN <<"n","/","a">>
    ELSE instrumentCurrency \o <<"/">> \o accountCurrency

ChooseFXPair(explicit, instrumentCurrency, accountCurrency) ==
    IF explicit # <<>> THEN explicit
    ELSE IF instrumentCurrency = <<>> \/ accountCurrency = <<>>
            \/ instrumentCurrency = accountCurrency
         THEN <<"n","/","a">>
    ELSE instrumentCurrency \o <<"/">> \o accountCurrency

WarnAccountTotal == "account total does not reconcile"
WarnAllocated == "investments allocated does not reconcile"

\* reconcile warning at the tolerance itself
reconcile_inclusive(summary, pieCash, freeCash, allocated) ==
    LET d1 == summary.totalValue - (freeCash + allocated)
        d2 == summary.investments.currentValue - allocated
        w1 == IF Abs(d1) >= Tolerance
              THEN <<[warning |-> WarnAccountTotal, diff |-> RoundCents(d1),
                      currency |-> summary.currency]>>
              ELSE <<>>
        w2 == IF Abs(d2) >= Tolerance
              THEN <<[warning |-> WarnAllocated, diff |-> RoundCents(d2),
                      currency |-> summary.currency]>>
              ELSE <<>>
    IN  [allocatedDiff |-> RoundCents(d2),
         accountTotalDiff |-> RoundCents(d1),
         warnings |-> w1 \o w2]

\* Service.reconcile
reconcile(summary, pieCash, freeCash, allocated) ==
    LET d1 == summary.totalValue - (freeCash + allocated)
        d2 == summary.investments.currentValue - allocated
        w1 == IF Abs(d1) > Tolerance
              THEN <<[warning |-> WarnAccountTotal, diff |-> RoundCents(d1),
                      currency |-> summary.currency]>>
              ELSE <<>>
        w2 == IF Abs(d2) > Tolerance
              THEN <<[warning |-> WarnAllocated, diff |-> RoundCents(d2),
                      currency |-> summary.currency]>>
              ELSE <<>>
    IN  [allocatedDiff |-> RoundCents(d2),
         accountTotalDiff |-> RoundCents(d1),
         warnings |-> w1 \o w2]

\* insertion that puts a row in front of the rows of equal market value
RECURSIVE InsertStable_unstable(_, _)
InsertStable_unstable(sorted, row) ==
    IF sorted = <<>> THEN <<row>>
    ELSE IF row.marketValue >= Head(sorted).marketValue THEN <<row>> \o sorted
    ELSE <<Head(sorted)>> \o InsertStable_unstable(Tail(sorted), row)

\* insertion that drops a row whose market value is already present
RECURSIVE InsertStable_dropEqual(_, _)
InsertStable_dropEqual(sorted, row) ==
    IF sorted = <<>> THEN <<row>>
    ELSE IF row.marketValue > Head(sorted).marketValue THEN <<row>> \o sorted
    ELSE IF row.marketValue = Head(sorted).marketValue THEN sorted
    ELSE <<Head(sorted)>> \o InsertStable_dropEqual(Tail(sorted), row)

\* the position of a row inserted by a stable sort whose less is
\* rows[i].marketValue > rows[j].marketValue: behind every row that is not smaller
RECURSIVE InsertStable(_, _)
InsertStable(sorted, row) ==
    IF sorted = <<>> THEN <<row>>
    ELSE IF row.marketValue > Head(sorted).marketValue THEN <<row>> \o sorted
    ELSE <<Head(sorted)>> \o InsertStable(Tail(sorted), row)

\* sort.SliceStable(rows, func(i, j) bool { return rows[i].MarketValue > rows[j].MarketValue })
RECURSIVE SortStable(_)
SortStable(rows) ==
    IF rows = <<>> THEN <<>>
    ELSE InsertStable(SortStable(SubSeq(rows, 1, Len(rows) - 1)), rows[Len(rows)])

\* the AllocationRow and the HoldingRow built from one position
AllocationRowOf(p, holdingsValue) ==
    [ticker |-> p.ticker, marketValue |-> CurrentValue(p),
     holdingsBps |-> AllocationBps(CurrentValue(p), holdingsValue)]

HoldingRowOf(p, summary, holdingsValue) ==
    [ticker |-> p.ticker,
     instrumentCurrency |-> p.currency,
     accountCurrency |-> summary.currency,
     invested |-> Invested(p),
     marketValue |-> CurrentValue(p),
     unrealizedPnL |-> p.walletImpact.unrealizedProfitLoss,
     fxImpact |-> p.walletImpact.fxImpact,
     fxPair |-> IF p.currency # <<>> /\ summary.currency # <<>>
                   /\ p.currency # summary.currency
                THEN p.currency \o <<"/">> \o summary.currency ELSE <<>>,
     holdingsBps |-> AllocationBps(CurrentValue(p), holdingsValue)]

NoOutput == [nil |-> TRUE]

TWRMethod == "holdings-only-no-flows"

\* GetPortfolio from the return of both fetches to the Output
BuildOutput(summary, positions, per, raw) ==
    LET holdingsValue == SumPositionsValue(positions)
        holdingsCost  == SumPositionsCost(positions)
        holdingsPnL   == SumPositionsPnL(positions)
        fx            == SumPositionsFXImpact(positions)
        pieCash       == summary.cash.inPies
        allocated     == holdingsValue + pieCash
        freeCash      == summary.cash.availableToTrade + summary.cash.reservedForOrders
    IN  [nil |-> FALSE,
         period |-> per,
         currency |-> summary.currency,
         derived |->
            [holdingsValue |-> holdingsValue,
             pieCash |-> pieCash,
             allocated |-> allocated,
             freeCash |-> freeCash,
             accountTotal |-> summary.totalValue,
             holdingsCost |-> holdingsCost,
             holdingsPnL |-> holdingsPnL,
             holdingsFXImpact |-> IF fx.ok THEN Ptr(fx.sum) ELSE NilPtr,
             holdingsPnLExclFX |-> IF fx.ok THEN Ptr(holdingsPnL - fx.sum) ELSE NilPtr,
             holdingsReturnPct |-> HoldingsReturnPct(holdingsPnL, holdingsCost),
             holdingsReturnBps |-> HoldingsReturnBps(holdingsPnL, holdingsCost),
             twrPctEst |-> HoldingsReturnPct(holdingsPnL, holdingsCost),
             twrBpsEst |-> HoldingsReturnBps(holdingsPnL, holdingsCost),
             twrMethod |-> TWRMethod],
         snapshot |->
            [apiInvestmentsValue |-> summary.investments.currentValue,
             apiCashInPies |-> summary.cash.inPies,
             apiCashAvailable |-> summary.cash.availableToTrade,
             apiCashReserved |-> summary.cash.reservedForOrders,
             apiTotalValue |-> summary.totalValue],
         reconciliation |-> reconcile(summary, pieCash, freeCash, allocated),
         allocation |->
            SortStable([i \in 1..Len(positions) |->
                          AllocationRowOf(positions[i], holdingsValue)]),
         holdings |->
            SortStable([i \in 1..Len(positions) |->
                          HoldingRowOf(positions[i], summary, holdingsValue)]),
         raw |-> IF raw THEN [nil |-> FALSE, accountSummary |-> summary,
                              positions |-> positions]
                 ELSE [nil |-> TRUE, accountSummary |-> ZeroSummary, positions |-> <<>>]]

NoSummary == [done |-> FALSE, err |-> NoError, value |-> ZeroSummary]
NoPositions == [done |-> FALSE, err |-> NoError, value |-> <<>>]
NoGRet == [returned |-> FALSE, output |-> NoOutput, err |-> NoError]

InitPortfolio ==
    /\ gpc = "idle"
    /\ period \in Periods
    /\ includeRaw \in BOOLEAN
    /\ fetches = <<>>
    /\ summaryRes = NoSummary
    /\ positionsRes = NoPositions
    /\ gret = NoGRet
    /\ labels = <<>>

\* the state of the portfolio part when it is not exercised
IdlePortfolio ==
    /\ gpc = "idle"
    /\ period = [from |-> NilStr, to |-> NilStr]
    /\ includeRaw = FALSE
    /\ fetches = <<>>
    /\ summaryRes = NoSummary
    /\ positionsRes = NoPositions
    /\ gret = NoGRet
    /\ labels = <<>>

\* GetPortfolio is entered and calls s.client.GetAccountSummary(ctx)
GetPortfolioStart ==
    /\ gpc = "idle"
    /\ gpc' = "summary"
    /\ fetches' = Append(fetches, "GetAccountSummary")
    /\ UNCHANGED <<period, includeRaw, summaryRes, positionsRes, gret, labels,
                   secretVars, httpVars, clientVars, otherVars>>

\* GetAccountSummary fails: return nil, classifyAccountError(err)
SummaryFails(err) ==
    /\ gpc = "summary"
    /\ summaryRes' = [done |-> TRUE, err |-> err, value |-> ZeroSummary]
    /\ gret' = [returned |-> TRUE, output |-> NoOutput, err |-> classifyAccountError(err)]
    /\ gpc' = "done"
    /\ UNCHANGED <<period, includeRaw, fetches, positionsRes, labels,
                   secretVars, httpVars, clientVars, otherVars>>

\* GetAccountSummary succeeds: s.client.GetPositions(ctx, "") is called
SummaryArrives(summary) ==
    /\ gpc = "summary"
    /\ summaryRes' = [done |-> TRUE, err |-> NoError, value |-> summary]
    /\ fetches' = Append(fetches, "GetPositions")
    /\ gpc' = "positions"
    /\ UNCHANGED <<period, includeRaw, positionsRes, gret, labels,
                   secretVars, httpVars, clientVars, otherVars>>

\* a positions failure answered with the output aggregated over no positions
PositionsFail_partial(err) ==
    /\ gpc = "positions"
    /\ positionsRes' = [done |-> TRUE, err |-> err, value |-> <<>>]
    /\ gret' = [returned |-> TRUE,
                output |-> BuildOutput(summaryRes.value, <<>>, period, includeRaw),
                err |-> classifyPortfolioError(err)]
    /\ gpc' = "done"
    /\ UNCHANGED <<period, includeRaw, fetches, summaryRes, labels,
                   secretVars, httpVars, clientVars, otherVars>>

\* GetPositions fails: return nil, classifyPortfolioError(err)
PositionsFail(err) ==
    /\ gpc = "positions"
    /\ positionsRes' = [done |-> TRUE, err |-> err, value |-> <<>>]
    /\ gret' = [returned |-> TRUE, output |-> NoOutput,
                err |-> classifyPortfolioError(err)]
    /\ gpc' = "done"
    /\ UNCHANGED <<period, includeRaw, fetches, summaryRes, labels,
                   secretVars, httpVars, clientVars, otherVars>>

\* GetPositions succeeds: aggregation, return output, nil
PositionsArrive(positions) ==
    /\ gpc = "positions"
    /\ positionsRes' = [done |-> TRUE, err |-> NoError, value |-> positions]
    /\ gret' = [returned |-> TRUE,
                output |-> BuildOutput(summaryRes.value, positions, period, includeRaw),
                err |-> NoError]
    /\ gpc' = "done"
    /\ UNCHANGED <<period, includeRaw, fetches, summaryRes, labels,
                   secretVars, httpVars, clientVars, otherVars>>

\* RenderPortfolioText: renderHolding(h, output.Summary.Currency) for each holding
RenderPortfolioText ==
    /\ gpc = "done"
    /\ ~gret.output.nil
    /\ labels' = [i \in 1..Len(gret.output.holdings) |->
                    ChooseFXPair(gret.output.holdings[i].fxPair,
                                 gret.output.holdings[i].instrumentCurrency,
                                 gret.output.currency)]
    /\ gpc' = "rendered"
    /\ UNCHANGED <<period, includeRaw, fetches, summaryRes, positionsRes, gret,
                   secretVars, httpVars, clientVars, otherVars>>

NextPortfolio ==
    \/ GetPortfolioStart
    \/ \E err \in FetchErrors : SummaryFails(err)
    \/ \E summary \in Summaries : SummaryArrives(summary)
    \/ \E err \in FetchErrors : PositionsFail(err)
    \/ \E positions \in PositionLists : PositionsArrive(positions)
    \/ RenderPortfolioText

----------------------------------------------------------------------------
(* Part V: the step of init that validates the credentials and stores them  *)
(* (presentation init, Update): a context with a deadline is made, the      *)
(* account summary is fetched under it, and the secret is then stored with  *)
(* secrets.Set while that context is still live (its cancel is deferred).   *)

\* secrets.Set(KeyTrading212APISecret, secret) once the validation fetch has
\* returned (its failure does not block init) and config.Save has succeeded;
\* the secret has passed ValidateNonEmpty
StoreSecret(secret) ==
    /\ hpc = "done"
    /\ pc = "idle"
    /\ secret # ""
    /\ SetStart(KeyTrading212APISecret, secret)

\* the deadline of the context passes while Set is parked in the select of
\* setInKeyringWithTimeout; that select has no case for it
DeadlinePasses ==
    /\ hpc = "done"
    /\ pc = "select"
    /\ ~ctxDone
    /\ ctxDone' = TRUE
    /\ UNCHANGED <<hpc, attempt, hnow, sentAt, resps, backoff, hret, secretVars, restVars>>

NextWorkflow ==
    \/ DoStart
    \/ CtxCancel
    \/ DoError
    \/ \E resp \in Responses : DoRecv(resp)
    \/ BackoffTick
    \/ BackoffElapsed
    \/ BackoffCancelled
    \/ \E secret \in NewVals : StoreSecret(secret)
    \/ DeadlinePasses
    \/ \E ok \in BOOLEAN : KeyringCall(ok)
    \/ ChanSend
    \/ \E g \in BagToSet(orphans) : \E ok \in BOOLEAN : OrphanKeyringCall(g, ok)
    \/ \E g \in BagToSet(orphans) : OrphanChanSend(g)
    \/ Tick
    \/ \E readOk \in BOOLEAN : \E writeOk \in BOOLEAN : SelectRecv(readOk, writeOk)
    \/ \E readOk \in BOOLEAN : \E writeOk \in BOOLEAN : SelectTimeout(readOk, writeOk)

----------------------------------------------------------------------------
(* Part VI: a caller that stores a secret and reads it back, as in the       *)
(* README's example: source, insecure, err := secrets.Set(key, v) followed   *)
(* by token, source, err := secrets.Get(key).                                *)

NoSet == [set |-> FALSE, input |-> "", source |-> SourceNone, insecure |-> FALSE,
          err |-> Nil]

IdleTrip == lastSet = NoSet

\* secrets.Set(key, value), the caller's first call; the callers pass a value
\* that has passed ValidateNonEmpty
SetFirst(value) ==
    /\ pc = "idle"
    /\ value # ""
    /\ SetStart(TheKey, value)

\* the assignment of what Set returned to the caller's source, insecure, err
AssignSetResult ==
    /\ pc = "done" /\ ret.op = "set"
    /\ ~lastSet.set
    /\ lastSet' = [set |-> TRUE, input |-> ret.input, source |-> ret.source,
                   insecure |-> ret.insecure, err |-> ret.err]
    /\ UNCHANGED <<secretVars, httpVars, clientVars, portVars, configVars, cmdVars>>

\* secrets.Get(key), the caller's next call when Set returned no error
GetAfterSet ==
    /\ lastSet.set
    /\ lastSet.err = Nil
    /\ ret.op = "set"
    /\ GetStart(TheKey)

NextTrip ==
    \/ \E v \in NewVals : SetFirst(v)
    \/ AssignSetResult
    \/ GetAfterSet
    \/ \E ok \in BOOLEAN : KeyringCall(ok)
    \/ ChanSend
    \/ \E g \in BagToSet(orphans) : \E ok \in BOOLEAN : OrphanKeyringCall(g, ok)
    \/ \E g \in BagToSet(orphans) : OrphanChanSend(g)
    \/ Tick
    \/ \E readOk \in BOOLEAN : \E writeOk \in BOOLEAN : SelectRecv(readOk, writeOk)
    \/ \E readOk \in BOOLEAN : \E writeOk \in BOOLEAN : SelectTimeout(readOk, writeOk)

----------------------------------------------------------------------------
(* Part VII: package config, Load and Save over the package variable cfg    *)

\* calls of Load and Save in one process
MaxConfigCalls == 3

NilConfig ==
    [nil |-> TRUE, Environment |-> <<>>, Workspace |-> <<>>,
     Trading212Env |-> <<>>, Trading212APIKey |-> <<>>]

Default ==
    [nil |-> FALSE, Environment |-> <<"l","o","c","a","l">>, Workspace |-> <<>>,
     Trading212Env |-> <<"d","e","m","o">>, Trading212APIKey |-> <<>>]

\* a key the file does not have
NoField == <<"<none>">>

\* a config file without any key
NoFields ==
    [environment |-> NoField, workspace |-> NoField,
     trading212_env |-> NoField, trading212_api_key |-> NoField]

\* the file as viper finds it: missing, not YAML, YAML whose values do not
\* decode into the struct's strings, or well-formed
FileMissing == [state |-> "missing", fields |-> NoFields]

ConfigFiles ==
    {FileMissing,
     [state |-> "malformed", fields |-> NoFields],
     [state |-> "mistyped", fields |-> [NoFields EXCEPT !.trading212_api_key = <<"k">>]],
     [state |-> "ok", fields |-> NoFields],
     [state |-> "ok", fields |-> [NoFields EXCEPT !.environment = <<"p","r","o","d">>,
                                                  !.trading212_env = <<"l","i","v","e">>,
                                                  !.trading212_api_key = <<"k">>]]}

\* the configs passed to Save
SaveArgs ==
    {NilConfig,
     [Default EXCEPT !.Environment = <<" ">>],
     [Default EXCEPT !.Trading212APIKey = <<"k","2">>],
     [Default EXCEPT !.Environment = <<"p","r","o","d">>, !.Trading212Env = <<"l","i","v","e">>,
                     !.Trading212APIKey = <<"k","2">>]}

ErrHomeDir == <<"failed to get home directory">>
ErrReadInConfig == <<"viper.ReadInConfig error">>
ErrUnmarshal == <<"failed to unmarshal config">>
ErrConfigRequired == <<"config is required">>
ErrEnvironmentRequired == <<"environment is required">>
ErrMkdirAll == <<"failed to create config directory">>
ErrWriteFile == <<"failed to write config file">>

\* validation.ValidateNonEmpty: nil iff the value is not blank
ValidateNonEmpty(value) == TrimSpace(value) # <<>>

\* viper.Unmarshal(c): the keys the file has replace the fields of c
Unmarshal(c, fields) ==
    [c EXCEPT
       !.Environment = IF fields.environment = NoField THEN @ ELSE fields.environment,
       !.Workspace = IF fields.workspace = NoField THEN @ ELSE fields.workspace,
       !.Trading212Env = IF fields.trading212_env = NoField THEN @
                         ELSE fields.trading212_env,
       !.Trading212APIKey = IF fields.trading212_api_key = NoField THEN @
                            ELSE fields.trading212_api_key]

\* yaml.Marshal(c): environment always, the omitempty fields when not empty
Marshal(c) ==
    [environment |-> c.Environment,
     workspace |-> IF c.Workspace = <<>> THEN NoField ELSE c.Workspace,
     trading212_env |-> IF c.Trading212Env = <<>> THEN NoField ELSE c.Trading212Env,
     trading212_api_key |-> IF c.Trading212APIKey = <<>> THEN NoField
                            ELSE c.Trading212APIKey]

NoConfigRet == [op |-> "none", cfg |-> NilConfig, err |-> Nil]

InitConfig ==
    /\ cfg = NilConfig
    /\ cfgFile \in ConfigFiles
    /\ configRet = NoConfigRet
    /\ configCalls = 0
    /\ parsedOnce = FALSE
    /\ savedOnce = FALSE

IdleConfig ==
    /\ cfg = NilConfig
    /\ cfgFile = FileMissing
    /\ configRet = NoConfigRet
    /\ configCalls = 0
    /\ parsedOnce = FALSE
    /\ savedOnce = FALSE

\* config.Load: the cached cfg if there is one; otherwise cfg = Default() and
\* then the file is read and decoded into it
Load(homeOk) ==
    /\ configCalls < MaxConfigCalls
    /\ configCalls' = configCalls + 1
    /\ IF ~cfg.nil
       THEN /\ configRet' = [op |-> "load", cfg |-> cfg, err |-> Nil]
            /\ UNCHANGED <<cfg, parsedOnce>>
       ELSE IF ~homeOk
       THEN /\ configRet' = [op |-> "load", cfg |-> NilConfig, err |-> ErrHomeDir]
            /\ UNCHANGED <<cfg, parsedOnce>>
       ELSE IF cfgFile.state \in {"missing", "malformed"}
       THEN /\ cfg' = Default
            /\ configRet' = [op |-> "load", cfg |-> NilConfig, err |-> ErrReadInConfig]
            /\ UNCHANGED parsedOnce
       ELSE IF cfgFile.state = "mistyped"
       THEN /\ cfg' = Default
            /\ configRet' = [op |-> "load", cfg |-> NilConfig, err |-> ErrUnmarshal]
            /\ UNCHANGED parsedOnce
       ELSE /\ cfg' = Unmarshal(Default, cfgFile.fields)
            /\ parsedOnce' = TRUE
            /\ configRet' = [op |-> "load", cfg |-> cfg', err |-> Nil]
    /\ UNCHANGED <<cfgFile, savedOnce, secretVars, httpVars, clientVars, portVars, tripVars, cmdVars>>

\* what Save returns: the first failing step's error, nil when all succeed
SaveError(c, homeOk, mkdirOk, writeOk) ==
    IF c.nil THEN ErrConfigRequired
    ELSE IF ~ValidateNonEmpty(c.Environment) THEN ErrEnvironmentRequired
    ELSE IF ~homeOk THEN ErrHomeDir
    ELSE IF ~mkdirOk THEN ErrMkdirAll
    ELSE IF ~writeOk THEN ErrWriteFile
    ELSE Nil

\* config.Save(c): the file is written and cfg = c only when every step succeeds
Save(c, homeOk, mkdirOk, writeOk) ==
    /\ configCalls < MaxConfigCalls
    /\ configCalls' = configCalls + 1
    /\ LET err == SaveError(c, homeOk, mkdirOk, writeOk) IN
       /\ configRet' = [op |-> "save", cfg |-> NilConfig, err |-> err]
       /\ IF err = Nil
          THEN /\ cfgFile' = [state |-> "ok", fields |-> Marshal(c)]
               /\ cfg' = c
               /\ savedOnce' = TRUE
          ELSE UNCHANGED <<cfgFile, cfg, savedOnce>>
    /\ UNCHANGED <<parsedOnce, secretVars, httpVars, clientVars, portVars, tripVars, cmdVars>>

NextConfig ==
    \/ \E homeOk \in BOOLEAN : Load(homeOk)
    \/ \E c \in SaveArgs : \E homeOk \in BOOLEAN : \E mkdirOk \in BOOLEAN :
          \E writeOk \in BOOLEAN : Save(c, homeOk, mkdirOk, writeOk)

----------------------------------------------------------------------------
(* Part VIII: the portfolio command: PersistentPreRunE of the root command, *)
(* then RunE of portfolioCmd with parsePeriod and HumanizeAccountError      *)

\* time.Parse("2006-01-02", s): four digits, "-", two digits, "-", two digits
\* and nothing else, naming a day of the calendar
IsLeap(y) == (y % 4 = 0 /\ y % 100 # 0) \/ y % 400 = 0

DaysIn(m, y) ==
    CASE m \in {1, 3, 5, 7, 8, 10, 12} -> 31
      [] m \in {4, 6, 9, 11} -> 30
      [] OTHER -> IF IsLeap(y) THEN 29 ELSE 28

AllDigits(s) == \A i \in 1..Len(s) : s[i] \in DOMAIN Digit

NoDate == [ok |-> FALSE, y |-> 0, m |-> 0, d |-> 0]

ParseDate(s) ==
    IF Len(s) # 10 THEN NoDate
    ELSE IF ~(AllDigits(SubSeq(s, 1, 4)) /\ s[5] = "-" /\ AllDigits(SubSeq(s, 6, 7))
              /\ s[8] = "-" /\ AllDigits(SubSeq(s, 9, 10)))
    THEN NoDate
    ELSE LET y == DigitsValue(SubSeq(s, 1, 4))
             m == DigitsValue(SubSeq(s, 6, 7))
             d == DigitsValue(SubSeq(s, 9, 10))
         IN  IF m < 1 \/ m > 12 \/ d < 1 \/ d > DaysIn(m, y) THEN NoDate
             ELSE [ok |-> TRUE, y |-> y, m |-> m, d |-> d]

\* Time.Before for two parsed dates
Before(a, b) ==
    \/ a.y < b.y
    \/ a.y = b.y /\ a.m < b.m
    \/ a.y = b.y /\ a.m = b.m /\ a.d < b.d

\* *string of a PeriodRange
NilDate == [nil |-> TRUE, v |-> <<>>]

\* portfolio.PeriodRange{From: nil, To: nil}
NoPeriod == [from |-> NilDate, to |-> NilDate]

ErrPeriodBothRequired == <<"reporting period requires both --from and --to (YYYY-MM-DD)">>
ErrPeriodFrom == <<"invalid --from (expected YYYY-MM-DD)">>
ErrPeriodTo == <<"invalid --to (expected YYYY-MM-DD)">>
ErrPeriodOrder == <<"invalid period: --to is before --from">>

\* parsePeriod that lets a range with one end through
parsePeriod_oneSided(fromStr0, toStr0) ==
    LET fromStr == TrimSpace(fromStr0)
        toStr   == TrimSpace(toStr0)
        from    == ParseDate(fromStr)
        to      == ParseDate(toStr)
    IN  IF fromStr = <<>> /\ toStr = <<>> THEN [period |-> NoPeriod, err |-> Nil]
        ELSE IF fromStr # <<>> /\ ~from.ok THEN [period |-> NoPeriod, err |-> ErrPeriodFrom]
        ELSE IF toStr # <<>> /\ ~to.ok THEN [period |-> NoPeriod, err |-> ErrPeriodTo]
        ELSE IF fromStr # <<>> /\ toStr # <<>> /\ Before(to, from)
        THEN [period |-> NoPeriod, err |-> ErrPeriodOrder]
        ELSE [period |-> [from |-> IF fromStr = <<>> THEN NilDate ELSE Ptr(fromStr),
                          to |-> IF toStr = <<>> THEN NilDate ELSE Ptr(toStr)],
              err |-> Nil]

\* parsePeriod
parsePeriod(fromStr0, toStr0) ==
    LET fromStr == TrimSpace(fromStr0)
        toStr   == TrimSpace(toStr0)
        from    == ParseDate(fromStr)
        to      == ParseDate(toStr)
    IN  IF fromStr = <<>> /\ toStr = <<>> THEN [period |-> NoPeriod, err |-> Nil]
        ELSE IF fromStr = <<>> \/ toStr = <<>>
        THEN [period |-> NoPeriod, err |-> ErrPeriodBothRequired]
        ELSE IF ~from.ok THEN [period |-> NoPeriod, err |-> ErrPeriodFrom]
        ELSE IF ~to.ok THEN [period |-> NoPeriod, err |-> ErrPeriodTo]
        ELSE IF Before(to, from) THEN [period |-> NoPeriod, err |-> ErrPeriodOrder]
        ELSE [period |-> [from |-> Ptr(fromStr), to |-> Ptr(toStr)], err |-> Nil]

\* values of the --from and --to flags
FlagValues ==
    {<<>>, <<" ">>,
     <<" ","2","0","2","4","-","0","2","-","2","9"," ">>,
     <<"2","0","2","3","-","1","2","-","3","1">>,
     <<"2","0","2","4","-","0","1","-","3","1">>,
     <<"2","0","2","4","-","0","2","-","0","1">>,
     <<"2","0","2","4","-","0","2","-","3","0">>,
     <<"2","0","2","4","-","1","-","5">>,
     <<"2","0","2","3","-","0","2","-","2","9">>}

\* strings.EqualFold(s, "live"), for the letters of the environment names
LowerTable ==
    [c \in {"L", "I", "V", "E", "D", "M", "O"} |->
        CASE c = "L" -> "l" [] c = "I" -> "i" [] c = "V" -> "v" [] c = "E" -> "e"
          [] c = "D" -> "d" [] c = "M" -> "m" [] c = "O" -> "o"]

ToLower(s) == [i \in 1..Len(s) |-> IF s[i] \in DOMAIN LowerTable THEN LowerTable[s[i]] ELSE s[i]]

EqualFoldLive(s) == ToLower(s) = <<"l","i","v","e">>

BaseURLDemo == <<"h","t","t","p","s",":","/","/","d","e","m","o",".","t","r","a","d","i","n","g","2","1","2",".","c","o","m">>
BaseURLLive == <<"h","t","t","p","s",":","/","/","l","i","v","e",".","t","r","a","d","i","n","g","2","1","2",".","c","o","m">>

\* errors.As(err, &httpErr): the error itself or one it wraps with %w is an
\* *HTTPError; fmt.Errorf("%w: %v", sentinel, err) wraps the sentinel alone
ErrorsAsHTTPError(err) ==
    IF err.kind = "HTTPError" THEN [ok |-> TRUE, e |-> err]
    ELSE [ok |-> FALSE, e |-> NoHRet]

\* errors.Is(err, sentinel) for the errors GetPortfolio returns
ErrorsIsKind(err, sentinel) == err.kind = "wrapped" /\ err.unwrap = sentinel

\* fmt.Errorf("%w (...)", err) of the Humanize functions
Humanized(err, guidance) == [kind |-> "humanized", unwrap |-> err, guidance |-> guidance]

GuidancePermission == <<"missing permission: enable \"Account data\" for your Trading212 API key">>
GuidanceFewSeconds == <<"rate limited: try again in a few seconds">>
GuidanceRetryIn(secs) == <<"rate limited: try again in ~", secs, "s">>

\* presentation.HumanizeAccountError
HumanizeAccountError(err, now) ==
    LET as == ErrorsAsHTTPError(err) IN
    IF as.ok /\ as.e.status = 403 THEN Humanized(err, GuidancePermission)
    ELSE IF as.ok /\ as.e.status = 429
    THEN LET s == SuggestedRetryDelay(as.e, now) IN
         IF s.ok
         THEN Humanized(err, GuidanceRetryIn(IF s.d < 1 THEN 1 ELSE s.d))
         ELSE Humanized(err, GuidanceFewSeconds)
    ELSE err

(* The command, step by step *)

NoSecretRes == [done |-> FALSE, value |-> <<>>, err |-> Nil]
NoPeriodRes == [done |-> FALSE, period |-> NoPeriod, err |-> Nil]
NoCmdRet == [returned |-> FALSE, err |-> NoError]

\* fmt.Errorf("%s", text): an error that wraps nothing
TextError(text) == [kind |-> "text", text |-> text]

\* an error of package config, secrets or trading212 passed on by the command
ChainError(chain) == [kind |-> "chain", chain |-> chain]

\* fmt.Errorf("%s: %w", text, err)
WrapText(text, err) == [kind |-> "wrapped", unwrap |-> err, text |-> <<text, ": ", err>>]

\* the texts of HumanizeDomainError
ConfigNotLoadedText == <<"config not loaded; please run 'folio212 init' first">>
MissingAPIKeyText == <<"missing trading212 api key; please run 'folio212 init'">>
MissingAPISecretText == <<"missing trading212 api secret; please run 'folio212 init'">>
InvalidPeriodText == <<"invalid period format">>
ConfigNotFoundText == <<"configuration not found. Please run 'folio212 init' first">>

\* what config.Load may return to PersistentPreRunE
LoadResults ==
    {[cfg |-> NilConfig, err |-> ErrReadInConfig],
     [cfg |-> Default, err |-> Nil],
     [cfg |-> [Default EXCEPT !.Trading212APIKey = <<" ">>], err |-> Nil],
     [cfg |-> [Default EXCEPT !.Trading212APIKey = <<"k">>], err |-> Nil],
     [cfg |-> [Default EXCEPT !.Trading212APIKey = <<"k">>,
                              !.Trading212Env = <<" ","L","i","v","e">>], err |-> Nil]}

\* what secrets.Get may return to the command (value, err)
SecretResults ==
    {[value |-> <<>>, err |-> Nil],
     [value |-> <<" ","\n">>, err |-> Nil],
     [value |-> <<"s">>, err |-> Nil],
     [value |-> <<" ","s","\n">>, err |-> Nil],
     [value |-> <<>>, err |-> <<"failed to get secret (keyring error)">> \o ErrKeyringBackend]}

InitCommand ==
    /\ xpc = "prerun"
    /\ flags \in [from : FlagValues, to : FlagValues]
    /\ cmdCfg = NilConfig
    /\ secretRes = NoSecretRes
    /\ periodRes = NoPeriodRes
    /\ steps = <<>>
    /\ fetchRes = <<>>
    /\ portfolioErr = NoError
    /\ cmdRet = NoCmdRet

IdleCommand ==
    /\ xpc = "prerun"
    /\ flags = [from |-> <<>>, to |-> <<>>]
    /\ cmdCfg = NilConfig
    /\ secretRes = NoSecretRes
    /\ periodRes = NoPeriodRes
    /\ steps = <<>>
    /\ fetchRes = <<>>
    /\ portfolioErr = NoError
    /\ cmdRet = NoCmdRet

\* return err from the command
Return(err) ==
    /\ xpc' = "done"
    /\ cmdRet' = [returned |-> TRUE, err |-> err]

\* rootCmd.PersistentPreRunE: cfg, err = config.Load()
PersistentPreRunE(res) ==
    /\ xpc = "prerun"
    /\ steps' = Append(steps, "load")
    /\ cmdCfg' = res.cfg
    /\ IF res.err # Nil
       THEN Return(ChainError(ConfigNotFoundText \o res.err))
       ELSE /\ xpc' = "run"
            /\ UNCHANGED cmdRet
    /\ UNCHANGED <<flags, secretRes, periodRes, fetchRes, portfolioErr,
                   secretVars, httpVars, clientVars, portVars, tripVars, configVars>>

\* portfolioCmd.RunE up to its call of secrets.Get
RunE ==
    /\ xpc = "run"
    /\ IF cmdCfg.nil
       THEN /\ steps' = Append(steps, "config")
            /\ Return(TextError(ConfigNotLoadedText))
       ELSE IF TrimSpace(cmdCfg.Trading212APIKey) = <<>>
       THEN /\ steps' = steps \o <<"config", "key">>
            /\ Return(TextError(MissingAPIKeyText))
       ELSE /\ steps' = steps \o <<"config", "key">>
            /\ xpc' = "secret"
            /\ UNCHANGED cmdRet
    /\ UNCHANGED <<flags, cmdCfg, secretRes, periodRes, fetchRes, portfolioErr,
                   secretVars, httpVars, clientVars, portVars, tripVars, configVars>>

\* RunE from the return of secrets.Get, with the period not checked
SecretReturns_periodUnchecked(res) ==
    /\ xpc = "secret"
    /\ secretRes' = [done |-> TRUE, value |-> res.value, err |-> res.err]
    /\ LET secret  == TrimSpace(res.value)
           baseURL == IF EqualFoldLive(TrimSpace(cmdCfg.Trading212Env))
                      THEN BaseURLLive ELSE BaseURLDemo
           pr      == parsePeriod(flags.from, flags.to)
           nc      == NewClient(baseURL, cmdCfg.Trading212APIKey, secret, <<>>)
       IN
       /\ periodRes' = IF res.err = Nil /\ secret # <<>>
                       THEN [done |-> TRUE, period |-> pr.period, err |-> pr.err]
                       ELSE periodRes
       /\ IF res.err # Nil
          THEN /\ steps' = Append(steps, "secret")
               /\ Return(ChainError(res.err))
          ELSE IF secret = <<>>
          THEN /\ steps' = Append(steps, "secret")
               /\ Return(TextError(MissingAPISecretText))
          ELSE IF nc.err # Nil
          THEN /\ steps' = steps \o <<"secret", "period", "client">>
               /\ Return(ChainError(nc.err))
          ELSE /\ steps' = steps \o <<"secret", "period", "client", "GetAccountSummary">>
               /\ xpc' = "summary"
               /\ UNCHANGED cmdRet
    /\ UNCHANGED <<flags, cmdCfg, fetchRes, portfolioErr,
                   secretVars, httpVars, clientVars, portVars, tripVars, configVars>>

\* RunE from the return of secrets.Get to the first fetch of GetPortfolio: the
\* secret, the base URL, parsePeriod, NewClient, the context, GetPortfolio
SecretReturns(res) ==
    /\ xpc = "secret"
    /\ secretRes' = [done |-> TRUE, value |-> res.value, err |-> res.err]
    /\ LET secret  == TrimSpace(res.value)
           baseURL == IF EqualFoldLive(TrimSpace(cmdCfg.Trading212Env))
                      THEN BaseURLLive ELSE BaseURLDemo
           pr      == parsePeriod(flags.from, flags.to)
           nc      == NewClient(baseURL, cmdCfg.Trading212APIKey, secret, <<>>)
       IN
       /\ periodRes' = IF res.err = Nil /\ secret # <<>>
                       THEN [done |-> TRUE, period |-> pr.period, err |-> pr.err]
                       ELSE periodRes
       /\ IF res.err # Nil
          THEN /\ steps' = Append(steps, "secret")
               /\ Return(ChainError(res.err))
          ELSE IF secret = <<>>
          THEN /\ steps' = Append(steps, "secret")
               /\ Return(TextError(MissingAPISecretText))
          ELSE IF pr.err # Nil
          THEN /\ steps' = steps \o <<"secret", "period">>
               /\ Return(WrapText(InvalidPeriodText, pr.err))
          ELSE IF nc.err # Nil
          THEN /\ steps' = steps \o <<"secret", "period", "client">>
               /\ Return(ChainError(nc.err))
          ELSE /\ steps' = steps \o <<"secret", "period", "client", "GetAccountSummary">>
               /\ xpc' = "summary"
               /\ UNCHANGED cmdRet
    /\ UNCHANGED <<flags, cmdCfg, fetchRes, portfolioErr,
                   secretVars, httpVars, clientVars, portVars, tripVars, configVars>>

\* GetAccountSummary returns to GetPortfolio; on an error GetPortfolio returns
\* classifyAccountError(err) and RunE returns HumanizeAccountError of that
SummaryReturns(res) ==
    /\ xpc = "summary"
    /\ fetchRes' = Append(fetchRes, res)
    /\ IF res # NoError
       THEN LET err == classifyAccountError(res) IN
            /\ portfolioErr' = err
            /\ Return(HumanizeAccountError(err, hnow))
            /\ UNCHANGED steps
       ELSE /\ steps' = Append(steps, "GetPositions")
            /\ xpc' = "positions"
            /\ UNCHANGED <<portfolioErr, cmdRet>>
    /\ UNCHANGED <<flags, cmdCfg, secretRes, periodRes,
                   secretVars, httpVars, clientVars, portVars, tripVars, configVars>>

\* GetPositions returns to GetPortfolio; on an error GetPortfolio returns
\* classifyPortfolioError(err) and RunE returns HumanizeAccountError of that;
\* otherwise the output is printed and RunE returns nil
PositionsReturns(res) ==
    /\ xpc = "positions"
    /\ fetchRes' = Append(fetchRes, res)
    /\ IF res # NoError
       THEN LET err == classifyPortfolioError(res) IN
            /\ portfolioErr' = err
            /\ Return(HumanizeAccountError(err, hnow))
       ELSE /\ Return(NoError)
            /\ UNCHANGED portfolioErr
    /\ UNCHANGED <<flags, cmdCfg, secretRes, periodRes, steps,
                   secretVars, httpVars, clientVars, portVars, tripVars, configVars>>

NextCommand ==
    \/ \E res \in LoadResults : PersistentPreRunE(res)
    \/ RunE
    \/ \E res \in SecretResults : SecretReturns(res)
    \/ \E res \in FetchErrors \cup {NoError} : SummaryReturns(res)
    \/ \E res \in FetchErrors \cup {NoError} : PositionsReturns(res)

----------------------------------------------------------------------------
(* Specifications *)

\* the parts of the callers not exercised
IdleOther == IdleTrip /\ IdleConfig /\ IdleCommand

\* no secret operation has been made
IdleSecrets ==
    /\ env = [n \in {EnvTrading212APISecret} |-> ""]
    /\ keyring = EmptySecrets(KeyTrading212APISecret)
    /\ file = [exists |-> FALSE, secrets |-> EmptySecrets(KeyTrading212APISecret)]
    /\ pc = "idle"
    /\ call = NoCall
    /\ waited = 0
    /\ worker = NoWorker
    /\ orphans = EmptyBag
    /\ ret = NoRet

InitS == InitSecrets /\ InitHTTP /\ IdleClient /\ IdlePortfolio /\ IdleOther

InitH == IdleSecrets /\ InitHTTP /\ IdleClient /\ IdlePortfolio /\ IdleOther

InitC == IdleSecrets /\ InitHTTP /\ InitClient /\ IdlePortfolio /\ IdleOther

InitP == IdleSecrets /\ InitHTTP /\ IdleClient /\ InitPortfolio /\ IdleOther

\* the credential resolver alone
SpecSecrets == InitS /\ [][NextSecrets]_vars

\* one call of doJSON alone
SpecHTTP == InitH /\ [][NextHTTP]_vars

\* NewClient and the requests made with its client
SpecClient == InitC /\ [][NextClient]_vars

\* one call of GetPortfolio and the rendering of its output
SpecPortfolio == InitP /\ [][NextPortfolio]_vars

InitG ==
    IdleSecrets /\ InitHTTP /\ IdleClient /\ IdlePortfolio /\ IdleTrip /\ InitConfig /\ IdleCommand

\* Load and Save of package config
SpecConfig == InitG /\ [][NextConfig]_vars

InitX ==
    IdleSecrets /\ InitHTTP /\ IdleClient /\ IdlePortfolio /\ IdleTrip /\ IdleConfig /\ InitCommand

\* one run of the portfolio command
SpecCommand == InitX /\ [][NextCommand]_vars

\* Set followed by Get
SpecTrip == InitS /\ [][NextTrip]_vars

\* the validate-and-store step of init: one doJSON, then one Set
SpecWorkflow == InitH /\ [][NextWorkflow]_vars

\* the credential resolver under the scheduling the Go runtime guarantees: time
\* passes and a runnable caller runs; nothing is assumed of the keyring backend
SpecSecretsLive ==
    /\ InitS
    /\ [][NextSecrets]_vars
    /\ WF_vars(Tick)
    /\ WF_vars(\E readOk \in BOOLEAN : \E writeOk \in BOOLEAN : SelectRecv(readOk, writeOk))
    /\ WF_vars(\E readOk \in BOOLEAN : \E writeOk \in BOOLEAN : SelectTimeout(readOk, writeOk))

----------------------------------------------------------------------------
(* Claims about the credential resolver *)

GetDone == pc = "done" /\ ret.op = "get"
SetDone == pc = "done" /\ ret.op = "set"
DeleteDone == pc = "done" /\ ret.op = "delete"

\* the value of the environment variable the documentation names for ret.key
EnvOfKey == env[EnvNameOf(ret.key)]

\* C1: whenever FOLIO212_<KEY in upper snake case> is non-empty, Get(key) returns
\* that value with source=environment and a nil error, whatever the keyring and
\* the file hold, and makes neither a keyring call nor a file read.
C1_EnvWins ==
    (GetDone /\ EnvOfKey # "") =>
        /\ ret.value = EnvOfKey
        /\ ret.source = SourceEnv
        /\ ret.err = Nil
        /\ ret.krCalls = 0
        /\ ret.fileGets = 0

\* C1 witness: Get answered from the environment while keyring and file both
\* hold a value for the key
C1_Witness ==
    /\ GetDone /\ EnvOfKey # "" /\ ret.source = SourceEnv
    /\ keyring[ret.key] \notin {Absent, ""}
    /\ file.exists /\ file.secrets[ret.key] \notin {Absent, ""}

\* the keyring wrapper yielded a non-empty value / the file read yielded one
KeyringYielded == ret.krErr = Nil /\ ret.krVal # ""
FileYielded == ret.fileErr = Nil /\ ret.fileVal # ""

\* C2: with the environment variable unset or empty and neither keyring nor file
\* yielding a non-empty value, Get returns ("", none, nil) if the keyring call
\* succeeded or failed with not-found, and ("", none, error wrapping the keyring
\* failure) if the keyring failure was anything else.
C2_NothingFound ==
    (GetDone /\ EnvOfKey = "" /\ ~KeyringYielded /\ ~FileYielded) =>
        /\ ret.value = ""
        /\ ret.source = SourceNone
        /\ (ret.krErr = Nil \/ ret.krErr = ErrNotFound) => ret.err = Nil
        /\ (ret.krErr # Nil /\ ret.krErr # ErrNotFound) =>
              /\ ret.err # Nil
              /\ ErrorsIs(ret.err, ret.krErr)

\* C2 witness: nothing found and the keyring failed with a backend error
C2_Witness ==
    /\ GetDone /\ EnvOfKey = "" /\ ~KeyringYielded /\ ~FileYielded
    /\ ret.krErr = ErrKeyringBackend
    /\ ret.err # Nil

\* C3: when the 3-second timer fires before the keyring call responds, Get takes
\* the keyring as unavailable and tries the file, returning the file's value with
\* source=config_file when the file yields a non-empty value for the key; and
\* nothing the left-behind goroutine does afterwards changes what Get returned.
C3_TimeoutFallsThrough ==
    /\ [](GetDone /\ ret.krOutcome = "timeout" =>
            /\ ret.krErr = TimeoutErrorGet
            /\ ret.fileGets = 1
            /\ (ret.fileErr = Nil /\ file.exists
                  /\ file.secrets[ret.key] \notin {Absent, ""}) =>
                    /\ ret.value = file.secrets[ret.key]
                    /\ ret.source = SourceFile
                    /\ ret.err = Nil)
    /\ [][(GetDone /\ ret.krOutcome = "timeout" /\ pc' = "done") => ret' = ret]_vars

\* C3 witness: Get timed out on a keyring that holds a value, answered from the
\* file, and the goroutine it left behind has since made its keyring call
C3_Witness ==
    /\ GetDone /\ ret.krOutcome = "timeout" /\ ret.source = SourceFile
    /\ keyring[ret.key] \notin {Absent, ""}
    /\ keyring[ret.key] # ret.value
    /\ \E g \in BagToSet(orphans) : g.state = "returned"

SetSaysKeyring ==
    SetDone /\ ret.source = SourceKeyring /\ ~ret.insecure /\ ret.err = Nil

C5_FileFallback ==
    SetDone =>
        /\ ret.krErr # Nil =>
              /\ ret.fileSets = 1
              /\ ret.fileErr = Nil =>
                    /\ ret.source = SourceFile /\ ret.insecure /\ ret.err = Nil
                    /\ file.exists /\ file.secrets[ret.key] = ret.input
              /\ ret.fileErr # Nil =>
                    /\ ret.source = SourceNone
                    /\ ret.err # Nil
                    /\ ErrorsIs(ret.err, ret.krErr)
                    /\ ErrorsIs(ret.err, ret.fileErr)
        /\ ret.krErr = Nil => ret.fileSets = 0

\* C5 witness: keyring timed out and the file write failed as well
C5_Witness ==
    /\ SetDone /\ ret.krOutcome = "timeout" /\ ret.fileErr = ErrFileSave
    /\ ret.source = SourceNone

KeyringDeleteFailed == ret.krErr # Nil /\ ret.krErr # ErrNotFound
FileDeleteFailed == ret.fileErr # Nil

\* C6: Delete always attempts both the keyring delete and the file delete; it
\* returns nil iff the keyring delete succeeded or reported not-found and the
\* file delete succeeded; otherwise its error reports every backend that failed.
C6_DeleteBoth ==
    DeleteDone =>
        /\ ret.krCalls = 1
        /\ ret.fileDeletes = 1
        /\ ret.err = Nil <=> (~KeyringDeleteFailed /\ ~FileDeleteFailed)
        /\ KeyringDeleteFailed <=> (ErrorsIs(ret.err, <<"keyring">>)
                                      /\ ErrorsIs(ret.err, ret.krErr))
        /\ FileDeleteFailed <=> (ErrorsIs(ret.err, <<"file">>)
                                   /\ ErrorsIs(ret.err, ret.fileErr))

\* C6 witness: both backends failed and both are reported
C6_Witness ==
    /\ DeleteDone /\ KeyringDeleteFailed /\ FileDeleteFailed
    /\ Len(ret.errs) = 2

\* C7: a caller waiting on a keyring operation always gets control back, even
\* when the backend never responds; once the 3 seconds have passed it gets the
\* operation's TimeoutError.
C7_WrapperReturns ==
    /\ (pc = "select") ~> (pc = "done")
    /\ (pc = "select" /\ waited >= KeyringTimeoutSeconds)
          ~> (pc = "done" /\ ret.krOutcome = "timeout"
                /\ ret.krErr \in {TimeoutErrorGet, TimeoutErrorSet, TimeoutErrorDelete})

\* C7 witness: an operation returned by timeout while its goroutine is still
\* inside the keyring call
C7_Witness ==
    /\ pc = "done" /\ ret.krOutcome = "timeout"
    /\ \E g \in BagToSet(orphans) : g.state = "running"

----------------------------------------------------------------------------
(* Claims about Client.doJSON *)

HDone == hpc = "done"

\* the first response and the HTTPError doJSON builds from it
First == resps[1].resp
FirstErr == HTTPErrorOf(First)

\* C8: one call sends at most two requests; a second one only after a first
\* response of 429; any other non-2xx first response ends the call at once with
\* its HTTPError after exactly one request; a 2xx first response is never
\* followed by another request.
C8_AtMostOneRetry ==
    /\ Len(sentAt) <= 2
    /\ Len(sentAt) = 2 => (Len(resps) >= 1 /\ First.status = StatusTooManyRequests)
    /\ (Len(resps) >= 1 /\ ~Is2xx(First.status) /\ First.status # StatusTooManyRequests) =>
          /\ HDone
          /\ hret = FirstErr
          /\ Len(sentAt) = 1 /\ Len(resps) = 1
    /\ (Len(resps) >= 1 /\ Is2xx(First.status)) =>
          /\ HDone
          /\ Len(sentAt) = 1 /\ Len(resps) = 1

\* C8 witness: a call that was retried after a 429 and has returned
C8_Witness ==
    /\ HDone /\ Len(sentAt) = 2 /\ Len(resps) = 2
    /\ First.status = StatusTooManyRequests

\* the delay the hints of the first response imply at its arrival
FirstDelay == SuggestedRetryDelay(FirstErr, resps[1].at)

\* C9: a first response of 429 whose hints imply a delay above 8 seconds ends the
\* call with the HTTPError (status 429 and the hints), no time spent waiting and
\* no second request.
C9_LongDelayNoRetry ==
    (Len(resps) >= 1 /\ First.status = StatusTooManyRequests
        /\ FirstDelay.ok /\ FirstDelay.d > 8) =>
          /\ HDone
          /\ hret.kind = "HTTPError" /\ hret.status = 429
          /\ hret.retryAfterSeconds = RetryAfterSeconds(First)
          /\ hret.rateLimitResetUnix = RateLimitResetUnix(First)
          /\ hnow = resps[1].at
          /\ Len(sentAt) = 1

\* C9 witness: a 429 with Retry-After: 9 was returned as the error
C9_Witness ==
    /\ HDone /\ Len(resps) = 1 /\ First.status = StatusTooManyRequests
    /\ First.retryAfter = <<"9">>
    /\ hret.retryAfterSeconds = 9

\* C10: after a first response of 429 with Retry-After: 2, while the caller's
\* context lives and the transport works, the call cannot end without exactly one
\* retry, sent when the 2 seconds have elapsed and not before; it returns nil if
\* the second response is 2xx with a body that decodes, and the second response's
\* HTTPError, with no further request, if that one is non-2xx (429 included).
C10_RetryAfterTwo ==
    (Len(resps) >= 1 /\ First.status = StatusTooManyRequests
        /\ First.retryAfter = <<"2">>) =>
          /\ Len(sentAt) <= 2
          /\ Len(sentAt) = 2 => sentAt[2] = resps[1].at + 2
          /\ (HDone /\ ~ctxDone /\ hret.kind # "transport error") =>
                (Len(sentAt) = 2 /\ Len(resps) = 2)
          /\ (Len(resps) = 2 /\ Is2xx(resps[2].resp.status) /\ resps[2].resp.bodyOk) =>
                (HDone /\ hret.kind = "nil")
          /\ (Len(resps) = 2 /\ ~Is2xx(resps[2].resp.status)) =>
                /\ HDone
                /\ hret = HTTPErrorOf(resps[2].resp)
                /\ Len(sentAt) = 2

\* C10 witness: 429 with Retry-After: 2, then a second 429, returned as the error
C10_Witness ==
    /\ HDone /\ Len(resps) = 2
    /\ First.status = StatusTooManyRequests /\ First.retryAfter = <<"2">>
    /\ resps[2].resp.status = StatusTooManyRequests
    /\ hret.status = 429

\* a header value that is a positive integer, and that integer
PositiveInt(h) == Atoi(TrimSpace(h)).ok /\ Atoi(TrimSpace(h)).n > 0
IntOf(h) == Atoi(TrimSpace(h)).n

\* the wait C11 states for the first response, arrived at resps[1].at
StatedWait ==
    IF PositiveInt(First.retryAfter) THEN IntOf(First.retryAfter)
    ELSE IF PositiveInt(First.reset)
         THEN IF IntOf(First.reset) > resps[1].at
              THEN IntOf(First.reset) - resps[1].at ELSE 0
         ELSE 5

\* C11: while doJSON waits after a first 429, its timer runs for the Retry-After
\* seconds if that header is a positive integer, else for the time left until the
\* X-RateLimit-Reset timestamp if that header is a positive integer (zero if it
\* has passed), else for 5 seconds; the retry is sent exactly that long after
\* the 429 arrived.
C11_WaitBeforeRetry ==
    /\ (hpc = "backoff") =>
          /\ Len(resps) = 1 /\ First.status = StatusTooManyRequests
          /\ backoff.d = StatedWait
    /\ (Len(sentAt) = 2) => sentAt[2] = resps[1].at + StatedWait

\* C11 witness: a retry sent after the wait taken from X-RateLimit-Reset, the
\* Retry-After header being present but not a positive integer
C11_Witness ==
    /\ Len(sentAt) = 2
    /\ First.retryAfter = <<"0">>
    /\ First.reset = <<"1","0","0","3">>
    /\ sentAt[2] > resps[1].at

\* C12: once the context is done while doJSON is parked in the 429 wait with the
\* timer not yet fired, the only thing the call does is return ctx.Err(); no
\* request is sent after that, and a call that returned ctx.Err() sent one request.
C12_CancelDuringBackoff ==
    /\ [](hret.kind = "ctx.Err" => (HDone /\ ctxDone /\ Len(sentAt) = 1))
    /\ [][(hpc = "backoff"
             /\ (backoff.sel = "ctx" \/ (backoff.sel = "none" /\ ~ctxDone /\ ctxDone')))
          => /\ sentAt' = sentAt
             /\ \/ hpc' = "backoff" /\ backoff'.sel = "ctx"
                \/ hpc' = "done" /\ hret'.kind = "ctx.Err"]_vars

\* C12 witness: the 5-second default wait was cancelled after time had passed
C12_Witness ==
    /\ HDone /\ hret.kind = "ctx.Err"
    /\ Len(resps) = 1
    /\ RetryAfterSeconds(First) = 0 /\ RateLimitResetUnix(First) = 0
    /\ hnow > resps[1].at

----------------------------------------------------------------------------
(* Claims about NewClient *)

\* empty, or white space only
Blank(str) == \A i \in 1..Len(str) : str[i] \in WhiteSpace

\* C13: NewClient returns no client and an error whenever baseURL, apiKey or
\* apiSecret is empty or white space only, and a client with a nil error
\* otherwise; every request built with a client carries a key and a secret that
\* are not blank.
C13_NewClientValidates ==
    /\ cpc # "new" =>
          IF Blank(newArgs.baseURL) \/ Blank(newArgs.apiKey) \/ Blank(newArgs.apiSecret)
          THEN client = NoClient /\ clientErr # Nil /\ cpc = "failed"
          ELSE client # NoClient /\ clientErr = Nil /\ cpc = "ready"
    /\ \A i \in 1..Len(requests) :
          ~Blank(requests[i].user) /\ ~Blank(requests[i].pass)

\* C13 witness: a call rejected only because the secret is white space
C13_Witness ==
    /\ cpc = "failed" /\ client = NoClient /\ clientErr # Nil
    /\ ~Blank(newArgs.baseURL) /\ ~Blank(newArgs.apiKey)
    /\ newArgs.apiSecret = <<"\r"," ">>

----------------------------------------------------------------------------
(* Claims about GetPortfolio *)

\* GetPortfolio returned an Output
HasOutput == gret.returned /\ ~gret.output.nil

\* the positions and the summary the output was aggregated from
Fetched == positionsRes.value
Out == gret.output

RECURSIVE SeqSum(_)
SeqSum(q) == IF q = <<>> THEN 0 ELSE Head(q) + SeqSum(Tail(q))

\* C14: GetPortfolio returns a complete Output with a nil error or a nil Output
\* with an error; after a failed account-summary fetch no positions fetch is
\* issued; an Output exists only when both fetches have succeeded.
C14_AllOrNothing ==
    /\ gret.returned =>
          \/ /\ ~gret.output.nil /\ gret.err = NoError
             /\ Len(Out.allocation) = Len(Fetched)
             /\ Len(Out.holdings) = Len(Fetched)
             /\ Out.currency = summaryRes.value.currency
             /\ Out.derived.accountTotal = summaryRes.value.totalValue
          \/ gret.output.nil /\ gret.err # NoError
    /\ (summaryRes.done /\ summaryRes.err # NoError) =>
          /\ fetches = <<"GetAccountSummary">>
          /\ ~positionsRes.done
          /\ gret.returned /\ gret.output.nil
    /\ ~gret.output.nil =>
          /\ fetches = <<"GetAccountSummary", "GetPositions">>
          /\ summaryRes.done /\ summaryRes.err = NoError
          /\ positionsRes.done /\ positionsRes.err = NoError

\* C14 witness: the summary arrived, the positions fetch failed, nothing returned
C14_Witness ==
    /\ gret.returned /\ gret.output.nil /\ gret.err # NoError
    /\ summaryRes.done /\ summaryRes.err = NoError
    /\ positionsRes.done /\ positionsRes.err # NoError

\* the error of a fetch, classified as the claim states for that fetch
Classified(err, forbidden) ==
    IF err.kind = "HTTPError" /\ err.status = 403
    THEN gret.err.kind = "wrapped" /\ gret.err.unwrap = forbidden
    ELSE IF err.kind = "HTTPError" /\ err.status = 429
    THEN gret.err.kind = "wrapped" /\ gret.err.unwrap = <<"rate limited">>
    ELSE gret.err = err

\* C15: a 403 on the summary fetch is returned as missing account data
\* permission, a 403 on the positions fetch as missing portfolio permission,
\* a 429 on either as rate limited, and any other error as it is.
C15_ClassifiesFailures ==
    /\ (summaryRes.done /\ summaryRes.err # NoError) =>
          Classified(summaryRes.err, <<"missing account data permission">>)
    /\ (positionsRes.done /\ positionsRes.err # NoError) =>
          Classified(positionsRes.err, <<"missing portfolio permission">>)

\* C15 witness: a 403 on the positions fetch
C15_Witness ==
    /\ positionsRes.done /\ positionsRes.err.kind = "HTTPError"
    /\ positionsRes.err.status = 403
    /\ gret.returned /\ gret.err.kind = "wrapped"

\* C16: HoldingsFXImpact and HoldingsPnLExclFX are both present or both absent;
\* present iff every fetched position has a non-null fxImpact (true of the empty
\* list); when present HoldingsPnLExclFX is HoldingsPnL minus the sum of fxImpact.
C16_FXAllOrNothing ==
    HasOutput =>
       LET allHaveFX == \A i \in 1..Len(Fetched) : ~Fetched[i].walletImpact.fxImpact.nil
           fxSum == SeqSum([i \in 1..Len(Fetched) |-> Fetched[i].walletImpact.fxImpact.v])
       IN  /\ Out.derived.holdingsFXImpact.nil = Out.derived.holdingsPnLExclFX.nil
           /\ ~Out.derived.holdingsFXImpact.nil <=> allHaveFX
           /\ allHaveFX =>
                 /\ Out.derived.holdingsFXImpact.v = fxSum
                 /\ Out.derived.holdingsPnLExclFX.v = Out.derived.holdingsPnL - fxSum

\* C16 witness: several positions, all with an fxImpact, of non-zero sum
C16_Witness ==
    /\ HasOutput /\ Len(Fetched) >= 2
    /\ ~Out.derived.holdingsFXImpact.nil
    /\ Out.derived.holdingsFXImpact.v # 0

HasWarning(w) ==
    \E i \in 1..Len(Out.reconciliation.warnings) : Out.reconciliation.warnings[i].warning = w

\* C17: the output warns that the account total does not reconcile iff
\* |AccountTotal - (FreeCash + Allocated)| > 0.01, and that the investments
\* allocated do not reconcile iff |API investments.currentValue - Allocated| > 0.01;
\* two successful fetches always give an Output and no error.
C17_ReconcileWarnings ==
    /\ HasOutput =>
          /\ HasWarning("account total does not reconcile") <=>
                Abs(Out.derived.accountTotal
                    - (Out.derived.freeCash + Out.derived.allocated)) > UnitsPerCent
          /\ HasWarning("investments allocated does not reconcile") <=>
                Abs(Out.snapshot.apiInvestmentsValue - Out.derived.allocated) > UnitsPerCent
    /\ (gret.returned /\ summaryRes.err = NoError /\ positionsRes.err = NoError) =>
          (~gret.output.nil /\ gret.err = NoError)

\* C17 witness: the account total is off by exactly 0.01 (no warning) while the
\* investments value is off by more (warning)
C17_Witness ==
    /\ HasOutput
    /\ Abs(Out.derived.accountTotal
           - (Out.derived.freeCash + Out.derived.allocated)) = UnitsPerCent
    /\ ~HasWarning("account total does not reconcile")
    /\ HasWarning("investments allocated does not reconcile")

\* where a ticker stands in the fetched list
FetchIndex(t) == CHOOSE k \in 1..Len(Fetched) : Fetched[k].ticker = t

\* rows by non-increasing market value, equal values in fetch order
StablyOrdered(rows) ==
    \A i \in 1..Len(rows) : \A j \in 1..Len(rows) :
       i < j =>
          /\ rows[i].marketValue >= rows[j].marketValue
          /\ rows[i].marketValue = rows[j].marketValue =>
                FetchIndex(rows[i].ticker) < FetchIndex(rows[j].ticker)

\* C18: Allocation and Holdings are each ordered by non-increasing market value
\* with equal values in fetch order, and row i of both is the same position.
C18_StableOrder ==
    HasOutput =>
       /\ StablyOrdered(Out.allocation)
       /\ StablyOrdered(Out.holdings)
       /\ Len(Out.allocation) = Len(Out.holdings)
       /\ \A i \in 1..Len(Out.allocation) :
             Out.allocation[i].ticker = Out.holdings[i].ticker

\* C18 witness: BBB fetched before AAA (equal values), a larger position last
C18_Witness ==
    /\ HasOutput /\ Len(Fetched) = 3
    /\ Fetched[1].ticker = "BBB" /\ Fetched[2].ticker = "AAA"
    /\ Fetched[3].ticker = "DDD"
    /\ Out.holdings[1].ticker = "DDD"

\* C19: the FX pair label of every holding in the rendered text is the pair the
\* row carries if it carries one, else "<instrumentCurrency>/<accountCurrency>"
\* if both are known and differ, else "n/a"; a row carries no other pair than
\* that one.
C19_FXPairLabel ==
    gpc = "rendered" =>
       /\ Len(labels) = Len(Out.holdings)
       /\ \A i \in 1..Len(labels) :
             LET h == Out.holdings[i]
                 known == h.instrumentCurrency # <<>> /\ Out.currency # <<>>
                 pair == h.instrumentCurrency \o <<"/">> \o Out.currency
             IN  /\ h.fxPair \in {<<>>, pair}
                 /\ labels[i] = IF h.fxPair # <<>> THEN h.fxPair
                                ELSE IF known /\ h.instrumentCurrency # Out.currency
                                     THEN pair
                                ELSE <<"n","/","a">>

\* C19 witness: a holding in the account currency labelled n/a beside one in
\* another currency labelled with its pair
C19_Witness ==
    /\ gpc = "rendered"
    /\ \E i \in 1..Len(labels) : \E j \in 1..Len(labels) :
          /\ Out.holdings[i].instrumentCurrency = Out.currency
          /\ Out.currency # <<>>
          /\ labels[i] = <<"n","/","a">>
          /\ labels[j] = <<"G","B","P","/">> \o Out.currency

\* C20: one allocation row per fetched position, none dropped or duplicated;
\* the allocation market values sum to HoldingsValue, which is the sum of the
\* positions' currentValue.
C20_AllocationCoversPositions ==
    HasOutput =>
       /\ Len(Out.allocation) = Len(Fetched)
       /\ \A k \in 1..Len(Fetched) :
             Cardinality({i \in 1..Len(Out.allocation) :
                            /\ Out.allocation[i].ticker = Fetched[k].ticker
                            /\ Out.allocation[i].marketValue
                                  = Fetched[k].walletImpact.currentValue}) = 1
       /\ SeqSum([i \in 1..Len(Out.allocation) |-> Out.allocation[i].marketValue])
             = Out.derived.holdingsValue
       /\ Out.derived.holdingsValue
             = SeqSum([k \in 1..Len(Fetched) |-> Fetched[k].walletImpact.currentValue])

\* C20 witness: three positions, two of them of equal value
C20_Witness ==
    /\ HasOutput /\ Len(Fetched) = 3 /\ Len(Out.allocation) = 3
    /\ Out.allocation[2].marketValue = Out.allocation[3].marketValue
    /\ Out.derived.holdingsValue > 0

\* n is p / q rounded to the nearest integer, for q > 0
NearestTo(n, p, q) == 2 * Abs(n * q - p) <= q

\* C21: TWRPctEst equals HoldingsReturnPct and TWRBpsEst equals
\* HoldingsReturnBps; the return is HoldingsPnL / HoldingsCost * 100 (reported to
\* four decimals and in basis points), 0 whenever HoldingsCost <= 0; TWRMethod is
\* "holdings-only-no-flows".
C21_TWREqualsHoldingsReturn ==
    HasOutput =>
       /\ Out.derived.twrPctEst = Out.derived.holdingsReturnPct
       /\ Out.derived.twrBpsEst = Out.derived.holdingsReturnBps
       /\ Out.derived.twrMethod = "holdings-only-no-flows"
       /\ Out.derived.holdingsCost <= 0 =>
             (Out.derived.holdingsReturnPct = 0 /\ Out.derived.holdingsReturnBps = 0)
       /\ Out.derived.holdingsCost > 0 =>
             /\ NearestTo(Out.derived.holdingsReturnPct,
                          Out.derived.holdingsPnL * 100 * 10000, Out.derived.holdingsCost)
             /\ NearestTo(Out.derived.holdingsReturnBps,
                          Out.derived.holdingsPnL * 100 * 100, Out.derived.holdingsCost)

\* C21 witness: a loss on a positive cost basis
C21_Witness ==
    /\ HasOutput /\ Out.derived.holdingsCost > 0
    /\ Out.derived.holdingsPnL < 0
    /\ Out.derived.twrBpsEst < 0

----------------------------------------------------------------------------
(* Further claims about the secrets package *)

\* C27: the goroutine that performs a keyring call can always send its result
\* and end, whether or not the caller has timed out and left its select: a
\* channel never holds more than one value, the send of a goroutine that has
\* its result is enabled, and a goroutine that has sent does not send again.
C27_WorkerNeverBlocks ==
    /\ Len(worker.ch) <= 1
    /\ worker.state = "returned" => ENABLED ChanSend
    /\ worker.state = "exited" => ~ENABLED ChanSend
    /\ \A g \in BagToSet(orphans) :
          /\ Len(g.ch) <= 1
          /\ g.state = "returned" => ENABLED OrphanChanSend(g)
          /\ g.state = "exited" => ~ENABLED OrphanChanSend(g)

\* C27 witness: the caller has returned by timeout and a goroutine it left
\* behind holds a result it has yet to send
C27_Witness ==
    /\ pc = "done" /\ ret.krOutcome = "timeout" /\ ret.op = "delete"
    /\ \E g \in BagToSet(orphans) : g.state = "returned"

\* Set has returned config_file after its keyring write timed out, and the only
\* goroutine left behind is the one of this Set, its keyring.Set still to come
SetFellBack ==
    /\ SetDone /\ ret.krOutcome = "timeout" /\ ret.source = SourceFile
    /\ orphans = SetToBag({NewWorker("set", ret.key, ret.input)})

\* C26: once Set has returned after a keyring timeout, having fallen back to
\* the file, the keyring write it abandoned has no further effect: the keyring
\* does not change, and so does not come to hold the value the file now holds.
C26_AbandonedWriteInert ==
    [][SetFellBack =>
          /\ keyring' = keyring
          /\ ~(keyring'[ret.key] = ret.input /\ file'.secrets[ret.key] = ret.input
                /\ keyring[ret.key] # ret.input)]_vars

\* C30: for every outcome of Get, the source is none iff the value is empty,
\* and an error is only returned together with an empty value and source none.
C30_SourceNoneIffEmpty ==
    GetDone =>
        /\ ret.source = SourceNone <=> ret.value = ""
        /\ ret.err # Nil => (ret.value = "" /\ ret.source = SourceNone)

\* C30 witness: Get returned an error while the keyring holds an empty value
\* for the key
C30_Witness ==
    /\ GetDone /\ EnvOfKey = "" /\ ret.err # Nil
    /\ ret.keyringAt = ""
    /\ ret.value = "" /\ ret.source = SourceNone

----------------------------------------------------------------------------
(* Claims about cancellation *)

\* C23 as claimed: once the caller's deadline or cancellation has fired, the
\* pending work is aborted at every suspension point: no request is sent, no
\* backoff time is waited, and the caller parked in the secure-store race
\* waits no longer.
C23_Original ==
    /\ [][ctxDone => sentAt' = sentAt]_vars
    /\ [][(ctxDone /\ hpc = "backoff") => hnow' = hnow]_vars
    /\ [][(ctxDone /\ pc = "select") => waited' <= waited]_vars

\* C23 amended: once the caller's deadline or cancellation has fired, doJSON
\* sends no request and waits no backoff time; the secure-store race takes no
\* cancellation signal: it ends only with the store's answer or, after its own
\* 3 seconds, with the TimeoutError, whether or not the signal has fired.
C23_CancelAbortsFetchAndBackoff ==
    /\ [][ctxDone => sentAt' = sentAt]_vars
    /\ [][(ctxDone /\ hpc = "backoff") => hnow' = hnow]_vars
    /\ [][(pc = "select" /\ pc' = "done") =>
            \/ ret'.krOutcome = "recv" /\ worker.ch # <<>>
            \/ ret'.krOutcome = "timeout" /\ waited >= KeyringTimeoutSeconds]_vars

\* C23 witness: the deadline passed during the 429 wait, doJSON returned
\* ctx.Err(), and the Set that followed under the same context ran into its own
\* 3-second timeout
C23_Witness ==
    /\ ctxDone /\ HDone /\ hret.kind = "ctx.Err"
    /\ SetDone /\ ret.krOutcome = "timeout" /\ ret.source = SourceFile

----------------------------------------------------------------------------
(* Claims about Set followed by Get *)

\* the Get that followed the caller's Set has returned, its keyring call having
\* answered in time without a backend failure and its file read, if any, too
GetAfterSetDone ==
    /\ GetDone /\ lastSet.set /\ EnvOfKey = ""
    /\ ret.krOutcome = "recv" /\ ret.krErr \in {Nil, ErrNotFound}
    /\ ret.fileErr = Nil

\* C24: with the key's environment variable unset, the Get issued right after a
\* Set(key, v) that returned no error returns v, from the backend Set reported
\* as its source, whatever keyring and file held before the Set.
C24_GetAfterSet ==
    GetAfterSetDone =>
        /\ ret.value = lastSet.input
        /\ ret.source = lastSet.source
        /\ ret.err = Nil

----------------------------------------------------------------------------
(* Claims about package config *)

\* C25: Load returns a config with a nil error only if the file was read and
\* decoded in this or an earlier call, or an earlier Save succeeded; a Load
\* after a failed Load, the file still missing, fails again.
C25_LoadNeedsFileOrSave ==
    (configRet.op = "load" /\ configRet.err = Nil) =>
        /\ ~configRet.cfg.nil
        /\ parsedOnce \/ savedOnce

----------------------------------------------------------------------------
(* Claims about the portfolio command *)

\* the flag values that name a day of the calendar, numbered in calendar order
CalendarDay ==
    <<"2","0","2","3","-","1","2","-","3","1">> :> 1
    @@ <<"2","0","2","4","-","0","1","-","3","1">> :> 2
    @@ <<"2","0","2","4","-","0","2","-","0","1">> :> 3
    @@ <<"2","0","2","4","-","0","2","-","2","9">> :> 4

\* the flags as given, surrounding white space aside
FromFlag == TrimSpace(flags.from)
ToFlag == TrimSpace(flags.to)

BothEmpty == FromFlag = <<>> /\ ToFlag = <<>>

BothDates ==
    /\ FromFlag \in DOMAIN CalendarDay
    /\ ToFlag \in DOMAIN CalendarDay
    /\ CalendarDay[ToFlag] >= CalendarDay[FromFlag]

\* a fetch of GetPortfolio has been issued
HTTPIssued == \E i \in 1..Len(steps) : steps[i] \in {"GetAccountSummary", "GetPositions"}

\* C22: parsePeriod accepts exactly two shapes of input: --from and --to both
\* empty, giving a PeriodRange with both ends absent, or both YYYY-MM-DD dates
\* with to >= from, giving both ends present; every other input is rejected with
\* an error that ends the command, so the PeriodRange GetPortfolio is called
\* with is never one-sided.
C22_PeriodParser ==
    /\ periodRes.done =>
          /\ periodRes.err = Nil <=> (BothEmpty \/ BothDates)
          /\ (periodRes.err = Nil /\ BothEmpty) => periodRes.period = NoPeriod
          /\ (periodRes.err = Nil /\ ~BothEmpty) =>
                periodRes.period = [from |-> Ptr(FromFlag), to |-> Ptr(ToFlag)]
          /\ periodRes.err # Nil =>
                (xpc = "done" /\ cmdRet.err # NoError /\ ~HTTPIssued)
    /\ HTTPIssued =>
          /\ periodRes.done
          /\ periodRes.period.from.nil <=> periodRes.period.to.nil

\* C22 witness: --to alone was given, a valid date, and the command ended
C22_Witness ==
    /\ periodRes.done /\ FromFlag = <<>> /\ ToFlag \in DOMAIN CalendarDay
    /\ periodRes.err # Nil
    /\ xpc = "done"

\* the last fetch of GetPortfolio ended with HTTP status st
FetchEndedWith(st) ==
    /\ xpc = "done" /\ fetchRes # <<>>
    /\ fetchRes[Len(fetchRes)].kind = "HTTPError"
    /\ fetchRes[Len(fetchRes)].status = st

\* C28: when GetPortfolio fails because a fetch ended with HTTP 403 or 429, the
\* error it returns matches the domain kind and has the HTTPError in its chain,
\* and HumanizeAccountError, applied to it by the command, adds the permission
\* guidance for 403 and the try-again guidance for 429.
C28_HumanizeSeesHTTPError ==
    /\ FetchEndedWith(403) =>
          /\ \/ ErrorsIsKind(portfolioErr, ErrMissingAccountDataPermission)
             \/ ErrorsIsKind(portfolioErr, ErrMissingPortfolioPermission)
          /\ ErrorsAsHTTPError(portfolioErr).ok
          /\ cmdRet.err = Humanized(portfolioErr, GuidancePermission)
    /\ FetchEndedWith(429) =>
          /\ ErrorsIsKind(portfolioErr, ErrRateLimited)
          /\ ErrorsAsHTTPError(portfolioErr).ok
          /\ cmdRet.err.kind = "humanized"

StepOrder ==
    <<"load", "config", "key", "secret", "period", "client",
      "GetAccountSummary", "GetPositions">>

\* the check named by a step did not pass
CheckFails(step) ==
    CASE step = "load" -> cmdCfg.nil
      [] step = "config" -> cmdCfg.nil
      [] step = "key" -> Blank(cmdCfg.Trading212APIKey)
      [] step = "secret" -> secretRes.done /\ (secretRes.err # Nil \/ Blank(secretRes.value))
      [] step = "period" -> ~(BothEmpty \/ BothDates)
      [] OTHER -> FALSE

\* C29: the portfolio command issues no HTTP request unless, in this order, the
\* config is loaded, the API key is not blank, the API secret resolves to a
\* value that is not blank and the period is valid; the first check that fails
\* ends the command with its error, and no later step is executed.
C29_ChecksBeforeHTTP ==
    /\ steps = SubSeq(StepOrder, 1, Len(steps))
    /\ HTTPIssued =>
          /\ ~cmdCfg.nil
          /\ ~Blank(cmdCfg.Trading212APIKey)
          /\ secretRes.done /\ secretRes.err = Nil /\ ~Blank(secretRes.value)
          /\ BothEmpty \/ BothDates
    /\ \A i \in 1..Len(steps) :
          CheckFails(steps[i]) =>
             /\ i = Len(steps)
             /\ xpc = "done" /\ cmdRet.returned /\ cmdRet.err # NoError

\* C29 witness: key and secret passed, the period did not, and the command
\* ended there
C29_Witness ==
    /\ xpc = "done" /\ steps = SubSeq(StepOrder, 1, 5)
    /\ ~Blank(secretRes.value) /\ ~BothDates
    /\ FromFlag \in DOMAIN CalendarDay /\ ToFlag \in DOMAIN CalendarDay
    /\ cmdRet.err.kind = "wrapped"

====
